---- MODULE Spec2Model ----
(***************************************************************************)
(* Model of the ice9 host-side driver (src/ice9.c): the ring buffer of     *)
(* over-read bytes, the blocking read ice9_read and the streaming read     *)
(* ice9_stream_read of the raw-bulk backend, and the bank buffer filled by *)
(* read_callback.                                                          *)
(*                                                                         *)
(* Sizes are scaled down so that the state space is finite and small; the  *)
(* relations between them that the code relies on are kept:                *)
(*   STRIDE = HEADER + PAYLOAD,  READ_XFER = one stride,                   *)
(*   STREAM_XFER = a whole number of strides,                              *)
(*   RING_BUFFER_SIZE - 1 >= the largest leftover of one stream transfer.  *)
(* Payload bytes are modelled by their position in the device's payload    *)
(* stream (1, 2, 3, ...), so that a lost, duplicated or reordered byte is  *)
(* visible; the status prefix bytes are StatusByte.                        *)
(***************************************************************************)
EXTENDS Integers, Sequences, FiniteSets, TLC

\* ---- program constants (scaled) ----
\* RING_BUFFER_SIZE (1024*1024 in the source)
RING_BUFFER_SIZE == 7
\* BANK_SIZE (1024*1024 in the source)
BANK_SIZE == 6
\* width of the status prefix of each packet (2 in the source)
HEADER == 2
\* payload bytes of a full packet (510 in the source)
PAYLOAD == 3
\* packet stride of the device (512 in the source)
STRIDE == 5
\* size of the scratch buffer of ice9_read (512 in the source)
READ_XFER == 5
\* size of the scratch buffer of ice9_stream_read (16384 in the source)
STREAM_XFER == 10
\* value of a status prefix byte; payload bytes are 1, 2, 3, ...
StatusByte == 0
\* content of memory that was allocated and never written
Uninit == 99

\* ---- bounds of the model ----
\* payload bytes the device hands out in one behaviour
MaxPayload == 10
\* payload bytes the device hands out when both read paths share a handle
MaxPayloadIO == 7
\* largest byte count a caller requests
MaxReq == 4
\* full packets the device holds at the start of the packet scenario
MaxPackets == 3
\* bytes offered to enqueue_to_read_buffer in one behaviour of the ring buffer
MaxEnqueued == 14
\* largest chunk handed to read_callback
MaxChunk == 3
\* bytes of memory behind the bank's allocation that the model keeps
BankSlack == 4

\* largest number of words a register-protocol call carries
MaxWords == 2
\* largest byte count handed to a plain ice9_write
MaxWriteLen == 3
\* register-protocol and ice9_write calls in one behaviour
MaxCalls == 2
\* successful bulk-in transfers one register read may take
MaxXfers == 2
\* bytes left in the ring buffer by the reads before the register-protocol calls
MaxStale == 2
\* handles the caller creates
MaxHandles == 4
\* bytes of stream data a streaming device queues ahead of a read
MaxStreamed == 2

\* ---- values the calls are tried with ----
\* register addresses (uint8_t): 0x12, 0xFF
Addresses == {18, 255}
\* payload words (uint16_t): 0x1234, 0x5678, 0x9ABC
WordList == <<4660, 22136, 39612>>
\* ping ids (uint8_t): 0x67
PingIds == {103}

VARIABLES
    hnd,        \* struct ice9_handle: the fields the read paths use
    pc,         \* "idle", or the function whose transfer loop is pending
    num_bytes,  \* bytes the pending call still has to deliver
    dest,       \* bytes written to the pending/last call's destination, in order
    result,     \* return value of the last call that returned
    call,       \* the last call made: its function, its count argument, and what
                \* it started from: the bytes buffered (in the ring buffer, or in
                \* the bank for read_callback), the device's stock and position,
                \* and the bank's read cursor
    ret,        \* integer returned by the last ring-buffer or callback operation
    xfer,       \* the last bulk transfer of the pending call: return code and length
    avail,      \* full packets the device holds (packet scenario only)
    devSent,    \* payload bytes the device has handed out so far
    delivered,  \* number of bytes written to the callers' destinations, all calls
    fifo,       \* bytes enqueued to the ring buffer and not yet drained, in order
    wire,       \* the libusb transfers the last register-protocol call issued
    device,     \* the device behind the register protocol: registers, pending reply
    ecode,      \* the static ecode that lib_try assigns
    allocated,  \* the live allocations: pairs of a handle's number and a resource
    calls,      \* number of register-protocol and ice9_write calls made
    int_data,   \* the caller's uint32_t that ice9_read_int_from_address fills, as
                \* its two 16-bit halves <<high, low>>
    threads,    \* the threads of the caller: for each its position in the call
                \* it runs and the locals of that call
    log         \* the logger: the holder of s_log_lock, the two sinks of the
                \* dispatch table, and the threads writing to each stream

vars == <<hnd, pc, num_bytes, dest, result, call, ret, xfer, avail, devSent, delivered, fifo,
          wire, device, ecode, allocated, calls, int_data, threads, log>>

\* the variables the read paths and the buffers leave alone
\* the variables of the caller's threads and of the logger
conc == <<threads, log>>

aux == <<wire, device, ecode, allocated, calls, int_data, conc>>

\* ---- helpers ----
MIN(a, b) == IF a < b THEN a ELSE b

\* memcpy out of an array: n bytes starting at offset off
Peek(mem, off, n) == [i \in 1..n |-> mem[off + i - 1]]

\* memcpy into an array: bytes stored from offset off
Poke(mem, off, bytes) ==
    [i \in DOMAIN mem |->
        IF i >= off /\ i < off + Len(bytes) THEN bytes[i - off + 1] ELSE mem[i]]

Take(s, n) == SubSeq(s, 1, MIN(n, Len(s)))
Drop(s, n) == SubSeq(s, MIN(n, Len(s)) + 1, Len(s))

\* ---- ring buffer ----
bytes_in_read_buffer(h) ==
    (h.read_buffer_head + RING_BUFFER_SIZE - h.read_buffer_tail) % RING_BUFFER_SIZE

free_space_in_read_buffer(h) == RING_BUFFER_SIZE - 1 - bytes_in_read_buffer(h)

\* drain_from_read_buffer without the clamp of count to the bytes in the buffer
drain_from_read_buffer_unclamped(h, count0) ==
    LET count == count0
        first_transfer == MIN(count, RING_BUFFER_SIZE - h.read_buffer_tail)
        out1 == Peek(h.read_buffer, h.read_buffer_tail, first_transfer)
        tail1 == (h.read_buffer_tail + first_transfer) % RING_BUFFER_SIZE
        second_transfer == MIN(count - first_transfer, RING_BUFFER_SIZE - 1)
        out2 == Peek(h.read_buffer, tail1, second_transfer)
    IN  [hnd   |-> [h EXCEPT !.read_buffer_tail =
                                 (tail1 + second_transfer) % RING_BUFFER_SIZE],
         bytes |-> out1 \o out2,
         ret   |-> count]

drain_from_read_buffer(h, count0) ==
    LET in_buffer == bytes_in_read_buffer(h)
        count == MIN(count0, in_buffer)
        first_transfer == MIN(count, RING_BUFFER_SIZE - h.read_buffer_tail)
        out1 == Peek(h.read_buffer, h.read_buffer_tail, first_transfer)
        tail1 == (h.read_buffer_tail + first_transfer) % RING_BUFFER_SIZE
        second_transfer == count - first_transfer
        out2 == Peek(h.read_buffer, tail1, second_transfer)
    IN  [hnd   |-> [h EXCEPT !.read_buffer_tail = tail1 + second_transfer],
         bytes |-> out1 \o out2,
         ret   |-> count]

\* enqueue_to_read_buffer that refuses a count larger than the free space
\* instead of truncating it
enqueue_to_read_buffer_all_or_nothing(h, src, count0) ==
    LET buffer_space == free_space_in_read_buffer(h)
        count == IF count0 > buffer_space THEN 0 ELSE count0
        first_transfer == MIN(count, RING_BUFFER_SIZE - h.read_buffer_head)
        buf1 == Poke(h.read_buffer, h.read_buffer_head, SubSeq(src, 1, first_transfer))
        head1 == (h.read_buffer_head + first_transfer) % RING_BUFFER_SIZE
        second_transfer == count - first_transfer
        buf2 == Poke(buf1, head1, SubSeq(src, first_transfer + 1, count))
    IN  [hnd |-> [h EXCEPT !.read_buffer = buf2,
                           !.read_buffer_head = head1 + second_transfer],
         ret |-> count]

\* enqueue_to_read_buffer with one copy and a head that is not wrapped
enqueue_to_read_buffer_no_wrap(h, src, count0) ==
    LET buffer_space == free_space_in_read_buffer(h)
        count == MIN(count0, buffer_space)
        buf1 == Poke(h.read_buffer, h.read_buffer_head, SubSeq(src, 1, count))
    IN  [hnd |-> [h EXCEPT !.read_buffer = buf1,
                           !.read_buffer_head = h.read_buffer_head + count],
         ret |-> count]

\* src is the memory from the source pointer on
enqueue_to_read_buffer(h, src, count0) ==
    LET buffer_space == free_space_in_read_buffer(h)
        count == MIN(count0, buffer_space)
        first_transfer == MIN(count, RING_BUFFER_SIZE - h.read_buffer_head)
        buf1 == Poke(h.read_buffer, h.read_buffer_head, SubSeq(src, 1, first_transfer))
        head1 == (h.read_buffer_head + first_transfer) % RING_BUFFER_SIZE
        second_transfer == count - first_transfer
        buf2 == Poke(buf1, head1, SubSeq(src, first_transfer + 1, count))
    IN  [hnd |-> [h EXCEPT !.read_buffer = buf2,
                           !.read_buffer_head = head1 + second_transfer],
         ret |-> count]

\* the bytes the ring buffer holds, oldest first
RingContents(h) ==
    [i \in 1..bytes_in_read_buffer(h) |->
        h.read_buffer[(h.read_buffer_tail + i - 1) % RING_BUFFER_SIZE]]

\* the abstract queue the ring buffer implements
FifoDrain(f, count) == Drop(f, count)
FifoEnqueue(f, src, count) ==
    f \o Take(src, MIN(count, RING_BUFFER_SIZE - 1 - Len(f)))

\* ---- handle ----
\* extra_data_buffer is the BANK_SIZE bytes of the bank followed by the
\* BankSlack bytes of memory that lie behind the allocation
ice9_new ==
    [read_buffer             |-> [i \in 0..(RING_BUFFER_SIZE - 1) |-> Uninit],
     read_buffer_head        |-> 0,
     read_buffer_tail        |-> 0,
     stream_bytes_to_read    |-> 0,
     stream_bytes_read_so_far|-> 0,
     extra_data_buffer       |-> [i \in 0..(BANK_SIZE + BankSlack - 1) |-> Uninit],
     extra_data_read_pointer |-> 0,
     extra_data_bytes        |-> 0]

NoCall == [fn |-> "none", req |-> 0, in_buffer |-> 0, avail |-> 0, sent |-> 0,
           cursor |-> 0]
NoXfer == [ret |-> 0, bytes_read |-> 0]

\* the allocations ice9_new makes (lines 99-110)
HandleAllocations ==
    {"handle", "context", "read_buffer", "extra_data_buffer", "bulk_sync_read_buffer"}

\* the allocations of handle number id after a successful ice9_new
Owned(id) == {<<id, r>> : r \in HandleAllocations}

\* the caller runs the library from one thread
NoThreads == <<>>

\* lines 7, 39 and 40 of logger.c: the lock is free, the sinks are the defaults,
\* no thread is writing to a stream
NoLog == [lock |-> 0, info |-> "ice9_log_info", error |-> "ice9_log_error",
          stdout |-> {}, stderr |-> {}]

\* a device whose registers were never written, that owes no reply and is not
\* streaming
NoDevice == [mem |-> [a \in Addresses |-> <<>>], out |-> <<>>, stream |-> FALSE]

InitHandle ==
    /\ wire = <<>>
    /\ device = NoDevice
    /\ ecode = "OK"
    /\ allocated = Owned(1)
    /\ calls = 0
    /\ int_data = <<0, 0>>
    /\ threads = NoThreads
    /\ log = NoLog
    /\ hnd = ice9_new
    /\ pc = "idle"
    /\ num_bytes = 0
    /\ dest = <<>>
    /\ result = "none"
    /\ call = NoCall
    /\ ret = 0
    /\ xfer = NoXfer
    /\ devSent = 0
    /\ delivered = 0
    /\ fifo = <<>>

Init == InitHandle /\ avail = 0

\* ---- the device behind libusb_bulk_transfer(0x81) ----
\* negative return codes of a bulk transfer
LibusbErrors == {0 - 1, 0 - 7}

\* payload bytes carried by a transfer of L bytes
PayloadIn(L) ==
    (L \div STRIDE) * PAYLOAD
        + (IF L % STRIDE > HEADER THEN (L % STRIDE) - HEADER ELSE 0)

\* the L bytes of a transfer, the device having sent `sent` payload bytes before
XferBuffer(L, sent) ==
    [i \in 1..L |->
        LET pos == (i - 1) % STRIDE
            k   == (i - 1) \div STRIDE
        IN  IF pos < HEADER THEN StatusByte
            ELSE sent + k * PAYLOAD + (pos - HEADER + 1)]

\* a transfer is well formed when no chunk of it is shorter than the header
WellFormed(L) == (L % STRIDE = 0) \/ (L % STRIDE >= HEADER)

\* ---- ice9_read ----
\* ReadEntry that enters the transfer loop whether or not bytes are still
\* wanted (a do-while loop)
ReadEntry_always_transfers(fn, n) ==
    LET d == drain_from_read_buffer(hnd, n)
    IN  /\ hnd' = d.hnd
        /\ dest' = d.bytes
        /\ delivered' = delivered + Len(d.bytes)
        /\ fifo' = FifoDrain(fifo, n)
        /\ num_bytes' = n - d.ret
        /\ call' = [fn |-> fn, req |-> n,
                    in_buffer |-> bytes_in_read_buffer(hnd), avail |-> avail,
                    sent |-> devSent, cursor |-> 0]
        /\ ret' = d.ret
        /\ xfer' = NoXfer
        /\ pc' = fn /\ result' = "none"
        /\ UNCHANGED <<devSent, aux>>

\* lines 381-383: the call up to its transfer loop
ReadEntry(fn, n) ==
    LET d == drain_from_read_buffer(hnd, n)
    IN  /\ hnd' = d.hnd
        /\ dest' = d.bytes
        /\ delivered' = delivered + Len(d.bytes)
        /\ fifo' = FifoDrain(fifo, n)
        /\ num_bytes' = n - d.ret
        /\ call' = [fn |-> fn, req |-> n,
                    in_buffer |-> bytes_in_read_buffer(hnd), avail |-> avail,
                    sent |-> devSent, cursor |-> 0]
        /\ ret' = d.ret
        /\ xfer' = NoXfer
        /\ IF n - d.ret > 0
           THEN pc' = fn /\ result' = "none"
           ELSE pc' = "idle" /\ result' = "OK"
        /\ UNCHANGED <<devSent, aux>>

\* ice9_read_body with pass_through not limited to the bytes still wanted
ice9_read_body_unclamped(h, nb, buffer) ==
    LET bytes_read == Len(buffer)
    IN  IF bytes_read > HEADER
        THEN LET pass_through == bytes_read - HEADER
                 nb1 == nb - pass_through
             IN  [hnd       |-> h,
                  out       |-> SubSeq(buffer, HEADER + 1, HEADER + pass_through),
                  num_bytes |-> nb1,
                  enq       |-> <<>>]
        ELSE [hnd |-> h, out |-> <<>>, num_bytes |-> nb, enq |-> <<>>]

\* lines 399-410: one pass of the loop body after a successful transfer
ice9_read_body(h, nb, buffer) ==
    LET bytes_read == Len(buffer)
    IN  IF bytes_read > HEADER
        THEN LET pass_through == MIN(nb, bytes_read - HEADER)
                 read_bytes_leftover == bytes_read - HEADER - pass_through
                 nb1 == nb - pass_through
                 stash == (nb1 = 0) /\ (read_bytes_leftover > 0)
                 src == SubSeq(buffer, pass_through + 1, bytes_read)
             IN  [hnd       |-> IF stash
                                THEN enqueue_to_read_buffer(h, src, read_bytes_leftover).hnd
                                ELSE h,
                  out       |-> SubSeq(buffer, HEADER + 1, HEADER + pass_through),
                  num_bytes |-> nb1,
                  enq       |-> IF stash THEN Take(src, read_bytes_leftover) ELSE <<>>]
        ELSE [hnd |-> h, out |-> <<>>, num_bytes |-> nb, enq |-> <<>>]

\* the effect of a loop pass on the model's variables
LoopPass(r, L) ==
    /\ hnd' = r.hnd
    /\ dest' = dest \o r.out
    /\ delivered' = delivered + Len(r.out)
    /\ fifo' = FifoEnqueue(fifo, r.enq, Len(r.enq))
    /\ num_bytes' = r.num_bytes
    /\ xfer' = [ret |-> 0, bytes_read |-> L]
    /\ devSent' = devSent + PayloadIn(L)
    /\ IF r.num_bytes > 0
       THEN pc' = pc /\ result' = "none"
       ELSE pc' = "idle" /\ result' = "OK"
    /\ UNCHANGED <<call, ret, aux>>

\* LoopError with the failure logged and the loop carried on
LoopError_carry_on(code) ==
    /\ xfer' = [ret |-> code, bytes_read |-> 0]
    /\ pc' = pc
    /\ result' = "none"
    /\ UNCHANGED <<hnd, num_bytes, dest, call, ret, avail, devSent, delivered, fifo, aux>>

\* lines 393-396 (and 343-346): the transfer failed
LoopError(code) ==
    /\ xfer' = [ret |-> code, bytes_read |-> 0]
    /\ pc' = "idle"
    /\ result' = "Error"
    /\ UNCHANGED <<hnd, num_bytes, dest, call, ret, avail, devSent, delivered, fifo, aux>>

Ice9Read ==
    /\ pc = "idle"
    /\ \E n \in 0..MaxReq : ReadEntry("ice9_read", n)
    /\ UNCHANGED avail

ReadTransfer ==
    /\ pc = "ice9_read"
    /\ \E L \in 0..READ_XFER :
        /\ devSent + PayloadIn(L) <= MaxPayload
        /\ LoopPass(ice9_read_body(hnd, num_bytes, XferBuffer(L, devSent)), L)
    /\ UNCHANGED avail

ReadTransferError ==
    /\ pc = "ice9_read"
    /\ \E code \in LibusbErrors : LoopError(code)

NextRead == Ice9Read \/ ReadTransfer \/ ReadTransferError

SpecRead == Init /\ [][NextRead]_vars

\* the payload bytes from position a + 1 to position b of the device's stream
PayloadRun(a, b) == [i \in 1..(b - a) |-> a + i]

\* The bytes written to the destinations of all calls so far, in call order,
\* are `delivered` bytes, of which the last Len(dest) are dest.  They are a
\* prefix of the payload stream exactly when every call's dest is the run of
\* the payload stream that starts where the calls before it stopped.
DestContinuesPayload ==
    /\ delivered <= devSent
    /\ dest = PayloadRun(delivered - Len(dest), delivered)

\* C1: over any sequence of ice9_read calls against well-formed packets, the
\* bytes written to the callers' destinations, in call order, are a prefix of
\* the packets' payload bytes in arrival order (nothing lost, nothing
\* delivered twice, no prefix byte delivered).
C1_ReadDeliversPayloadPrefix ==
    call.fn = "ice9_read" => DestContinuesPayload

\* ---- ice9_stream_read ----
\* destuff that takes a whole stride of payload behind each header
RECURSIVE destuff_full_stride(_, _, _)
destuff_full_stride(buffer, src, bytes_read) ==
    IF bytes_read > 0
    THEN LET to_copy == MIN(STRIDE, bytes_read - HEADER)
             rest == destuff_full_stride(buffer, src + to_copy + HEADER,
                                         bytes_read - (to_copy + HEADER))
         IN  [stripped      |-> SubSeq(buffer, src + HEADER + 1, src + HEADER + to_copy)
                                    \o rest.stripped,
              valid_read    |-> to_copy + rest.valid_read,
              negative_copy |-> (to_copy < 0) \/ rest.negative_copy]
    ELSE [stripped |-> <<>>, valid_read |-> 0, negative_copy |-> FALSE]

\* lines 352-359: the destuffing loop over a transfer of bytes_read bytes, from
\* offset src of the transfer buffer.  negative_copy records a pass in which
\* to_copy is negative, where memcpy is called with a length of (size_t)-1.
RECURSIVE destuff(_, _, _)
destuff(buffer, src, bytes_read) ==
    IF bytes_read > 0
    THEN LET to_copy == MIN(PAYLOAD, bytes_read - HEADER)
             rest == destuff(buffer, src + to_copy + HEADER,
                             bytes_read - (to_copy + HEADER))
         IN  [stripped      |-> SubSeq(buffer, src + HEADER + 1, src + HEADER + to_copy)
                                    \o rest.stripped,
              valid_read    |-> to_copy + rest.valid_read,
              negative_copy |-> (to_copy < 0) \/ rest.negative_copy]
    ELSE [stripped |-> <<>>, valid_read |-> 0, negative_copy |-> FALSE]

\* ice9_stream_read_body that stashes the whole destuffed transfer, the bytes
\* passed through included
ice9_stream_read_body_stash_all(h, nb, buffer) ==
    LET d == destuff(buffer, 0, Len(buffer))
        copy == (d.valid_read > 0) /\ (nb > 0)
        pass_through == IF copy THEN MIN(nb, d.valid_read) ELSE 0
        nb1 == nb - pass_through
        valid_read == d.valid_read
        stash == (nb1 = 0) /\ (valid_read # 0)
        src == d.stripped
    IN  [hnd       |-> IF stash
                       THEN enqueue_to_read_buffer(h, src, valid_read).hnd
                       ELSE h,
         out       |-> SubSeq(d.stripped, 1, pass_through),
         num_bytes |-> nb1,
         enq       |-> IF stash THEN Take(src, valid_read) ELSE <<>>]

\* ice9_stream_read_body with the leftover stashed from the start of
\* buffer_stripped instead of from behind the bytes passed through
ice9_stream_read_body_stale_src(h, nb, buffer) ==
    LET d == destuff(buffer, 0, Len(buffer))
        copy == (d.valid_read > 0) /\ (nb > 0)
        pass_through == IF copy THEN MIN(nb, d.valid_read) ELSE 0
        nb1 == nb - pass_through
        valid_read == d.valid_read - pass_through
        stash == (nb1 = 0) /\ (valid_read # 0)
        src == d.stripped
    IN  [hnd       |-> IF stash
                       THEN enqueue_to_read_buffer(h, src, valid_read).hnd
                       ELSE h,
         out       |-> SubSeq(d.stripped, 1, pass_through),
         num_bytes |-> nb1,
         enq       |-> IF stash THEN Take(src, valid_read) ELSE <<>>]

\* lines 347-374: one pass of the loop body after a successful transfer
ice9_stream_read_body(h, nb, buffer) ==
    LET d == destuff(buffer, 0, Len(buffer))
        copy == (d.valid_read > 0) /\ (nb > 0)
        pass_through == IF copy THEN MIN(nb, d.valid_read) ELSE 0
        nb1 == nb - pass_through
        valid_read == d.valid_read - pass_through
        stash == (nb1 = 0) /\ (valid_read # 0)
        src == SubSeq(d.stripped, pass_through + 1, Len(d.stripped))
    IN  [hnd       |-> IF stash
                       THEN enqueue_to_read_buffer(h, src, valid_read).hnd
                       ELSE h,
         out       |-> SubSeq(d.stripped, 1, pass_through),
         num_bytes |-> nb1,
         enq       |-> IF stash THEN Take(src, valid_read) ELSE <<>>]

Ice9StreamRead ==
    /\ pc = "idle"
    /\ \E n \in 0..MaxReq : ReadEntry("ice9_stream_read", n)
    /\ UNCHANGED avail

StreamTransfer ==
    /\ pc = "ice9_stream_read"
    /\ \E L \in 0..STREAM_XFER :
        /\ WellFormed(L)
        /\ devSent + PayloadIn(L) <= MaxPayload
        /\ LoopPass(ice9_stream_read_body(hnd, num_bytes, XferBuffer(L, devSent)), L)
    /\ UNCHANGED avail

StreamTransferError ==
    /\ pc = "ice9_stream_read"
    /\ \E code \in LibusbErrors : LoopError(code)

NextStream == Ice9StreamRead \/ StreamTransfer \/ StreamTransferError

SpecStream == Init /\ [][NextStream]_vars

\* C2: over any sequence of ice9_stream_read calls against transfers made of
\* strides that each start with the prefix, the bytes written to the callers'
\* destinations are a prefix of the strides' payload bytes in arrival order,
\* and the bytes left in the ring buffer are exactly the payload bytes that
\* arrived and were not delivered yet (so the next call returns them first).
C2_StreamDeliversPayloadPrefix ==
    call.fn = "ice9_stream_read" =>
        /\ DestContinuesPayload
        /\ RingContents(hnd) = PayloadRun(delivered, devSent)

\* a stream read that was served first from the leftover of the call before
\* it and then from a transfer of more than one stride, and left a leftover
C2_Witness ==
    /\ pc = "idle"
    /\ result = "OK"
    /\ call.fn = "ice9_stream_read"
    /\ call.in_buffer > 0
    /\ call.req > call.in_buffer
    /\ xfer.bytes_read > STRIDE
    /\ Len(dest) = call.req
    /\ bytes_in_read_buffer(hnd) > 0

\* ---- packet scenario: the device holds `avail` full packets ----
InitPackets == InitHandle /\ avail \in 1..MaxPackets

PacketRead ==
    /\ pc = "idle"
    /\ \E n \in 0..(avail * PAYLOAD) : ReadEntry("ice9_read", n)
    /\ UNCHANGED avail

PacketStreamRead ==
    /\ pc = "idle"
    /\ \E n \in 0..(avail * PAYLOAD) : ReadEntry("ice9_stream_read", n)
    /\ UNCHANGED avail

\* a 512-byte transfer takes one packet
PacketReadTransfer ==
    /\ pc = "ice9_read"
    /\ avail >= 1
    /\ LoopPass(ice9_read_body(hnd, num_bytes, XferBuffer(READ_XFER, devSent)),
                READ_XFER)
    /\ avail' = avail - 1

\* a 16384-byte transfer takes as many of the packets as have reached the host
PacketStreamTransfer ==
    /\ pc = "ice9_stream_read"
    /\ \E j \in 1..MIN(avail, STREAM_XFER \div STRIDE) :
        /\ LoopPass(ice9_stream_read_body(hnd, num_bytes,
                                          XferBuffer(j * STRIDE, devSent)),
                    j * STRIDE)
        /\ avail' = avail - j

NextPackets ==
    PacketRead \/ PacketStreamRead \/ PacketReadTransfer \/ PacketStreamTransfer

SpecPackets == InitPackets /\ [][NextPackets]_vars

\* a read that returned OK, on a handle whose ring buffer was empty, of
\* 1 <= n <= k * PAYLOAD bytes with k full packets at the device
PacketCaseDone ==
    /\ pc = "idle"
    /\ result = "OK"
    /\ call.fn \in {"ice9_read", "ice9_stream_read"}
    /\ call.in_buffer = 0
    /\ call.req >= 1
    /\ call.req <= call.avail * PAYLOAD

\* C3: a read of 1 <= n <= k * PAYLOAD bytes, on a handle whose ring buffer is
\* empty and with k full packets at the device, returns the first n payload
\* bytes and leaves the remaining k * PAYLOAD - n payload bytes, in order, in
\* the ring buffer.
C3_LeftoverIsAllRemainingPayload ==
    PacketCaseDone =>
        /\ dest = PayloadRun(call.sent, call.sent + call.req)
        /\ RingContents(hnd) =
               PayloadRun(call.sent + call.req, call.sent + call.avail * PAYLOAD)

\* ---- both read paths on one handle, any transfer results ----
\* lines 352-355 with a final chunk shorter than the header: to_copy is -1 and
\* memcpy is called with a length of (size_t)-1, which runs off the end of the
\* stack buffers; the process does not survive that call.
StreamTransferMalformed ==
    /\ pc = "ice9_stream_read"
    /\ \E L \in 0..STREAM_XFER :
        /\ ~WellFormed(L)
        /\ devSent + PayloadIn(L) <= MaxPayload
        /\ destuff(XferBuffer(L, devSent), 0, L).negative_copy
        /\ xfer' = [ret |-> 0, bytes_read |-> L]
        /\ devSent' = devSent + PayloadIn(L)
    /\ pc' = "faulted"
    /\ result' = "none"
    /\ UNCHANGED <<hnd, num_bytes, dest, call, ret, avail, delivered, fifo, aux>>

\* the transfers of a device that hands out at most MaxPayloadIO payload bytes
IOReadTransfer == ReadTransfer /\ devSent' <= MaxPayloadIO
IOStreamTransfer == StreamTransfer /\ devSent' <= MaxPayloadIO
IOStreamTransferMalformed == StreamTransferMalformed /\ devSent' <= MaxPayloadIO

NextIO ==
    \/ Ice9Read \/ IOReadTransfer \/ ReadTransferError
    \/ Ice9StreamRead \/ IOStreamTransfer \/ StreamTransferError
    \/ IOStreamTransferMalformed

SpecIO == Init /\ [][NextIO]_vars

\* C4: ice9_read and ice9_stream_read never write more than num_bytes bytes to
\* the destination, and return OK only when exactly num_bytes bytes were
\* written (those drained from the ring buffer plus those copied from
\* transfers).
C4_OkMeansExactlyNumBytes ==
    call.fn \in {"ice9_read", "ice9_stream_read"} =>
        /\ Len(dest) <= call.req
        /\ Len(dest) + num_bytes = call.req
        /\ (pc = "idle" /\ result = "OK") => Len(dest) = call.req
        /\ (pc = "idle" /\ result = "OK") => num_bytes = 0

\* a call that returned OK after taking bytes from the ring buffer and from
\* more than one transfer's worth of payload
C4_Witness ==
    /\ pc = "idle"
    /\ result = "OK"
    /\ call.in_buffer > 0
    /\ call.req > call.in_buffer
    /\ xfer.bytes_read > HEADER
    /\ Len(dest) = call.req

\* C5: when a bulk transfer of ice9_read or ice9_stream_read returns a negative
\* code, the call returns a non-OK kind at once (so it issues no further
\* transfer), the ring buffer is left as it was, and the bytes already copied
\* to the destination stay there and are not put back into the ring buffer.
C5_TransferErrorAbortsCall ==
    [][(pc \in {"ice9_read", "ice9_stream_read"} /\ xfer'.ret < 0) =>
          /\ pc' = "idle"
          /\ result' \notin {"OK", "none"}
          /\ hnd' = hnd
          /\ dest' = dest
          /\ delivered' = delivered]_vars

\* a call that failed after it had drained the ring buffer and copied payload
C5_Witness ==
    /\ pc = "idle"
    /\ result = "Error"
    /\ xfer.ret < 0
    /\ call.in_buffer > 0
    /\ Len(dest) > call.in_buffer
    /\ bytes_in_read_buffer(hnd) = 0

\* ---- the ring buffer on its own: any enqueue and drain calls ----
RingEnqueue ==
    /\ pc = "idle"
    /\ \E count \in 0..(RING_BUFFER_SIZE + 1) :
        LET src == PayloadRun(devSent, devSent + count)
            r == enqueue_to_read_buffer(hnd, src, count)
        IN  /\ devSent + count <= MaxEnqueued
            /\ hnd' = r.hnd
            /\ ret' = r.ret
            /\ fifo' = FifoEnqueue(fifo, src, count)
            /\ devSent' = devSent + count
            /\ call' = [fn |-> "enqueue_to_read_buffer", req |-> count,
                        in_buffer |-> bytes_in_read_buffer(hnd), avail |-> 0,
                        sent |-> devSent, cursor |-> 0]
    /\ UNCHANGED <<pc, num_bytes, dest, result, xfer, avail, delivered, aux>>

RingDrain ==
    /\ pc = "idle"
    /\ \E count \in 0..(RING_BUFFER_SIZE + 1) :
        LET d == drain_from_read_buffer(hnd, count)
        IN  /\ hnd' = d.hnd
            /\ ret' = d.ret
            /\ dest' = d.bytes
            /\ fifo' = FifoDrain(fifo, count)
            /\ call' = [fn |-> "drain_from_read_buffer", req |-> count,
                        in_buffer |-> bytes_in_read_buffer(hnd), avail |-> 0,
                        sent |-> devSent, cursor |-> 0]
    /\ UNCHANGED <<pc, num_bytes, result, xfer, avail, devSent, delivered, aux>>

NextRing == RingEnqueue \/ RingDrain

SpecRing == Init /\ [][NextRing]_vars

\* C6: after any enqueue and drain calls on a new handle, head and tail are in
\* [0, C), the buffer holds at most C - 1 bytes, head = tail exactly when no
\* byte is enqueued and not drained, and the byte count and the free space the
\* code computes are the true ones.
C6_RingIndicesInRange ==
    /\ hnd.read_buffer_head \in 0..(RING_BUFFER_SIZE - 1)
    /\ hnd.read_buffer_tail \in 0..(RING_BUFFER_SIZE - 1)
    /\ bytes_in_read_buffer(hnd) <= RING_BUFFER_SIZE - 1
    /\ bytes_in_read_buffer(hnd) = Len(fifo)
    /\ free_space_in_read_buffer(hnd) = RING_BUFFER_SIZE - 1 - Len(fifo)
    /\ (hnd.read_buffer_head = hnd.read_buffer_tail) <=> (fifo = <<>>)

\* the buffer is full and its occupied region wraps around the end
C6_Witness ==
    /\ call.fn = "enqueue_to_read_buffer"
    /\ Len(fifo) = RING_BUFFER_SIZE - 1
    /\ hnd.read_buffer_head < hnd.read_buffer_tail
    /\ hnd.read_buffer_head > 0

\* C7: drain_from_read_buffer(count) returns min(count, bytes in buffer) bytes,
\* which are the oldest bytes enqueued and not drained, in enqueue order, also
\* when they wrap around the end of the storage; the bytes it leaves are the
\* younger ones; and a drain of n right after an enqueue of n bytes that fit
\* into an empty buffer returns the bytes enqueued.
C7_DrainIsFifo ==
    [][(call'.fn = "drain_from_read_buffer") =>
          /\ ret' = MIN(call'.req, Len(fifo))
          /\ ret' = MIN(call'.req, bytes_in_read_buffer(hnd))
          /\ dest' = Take(fifo, call'.req)
          /\ RingContents(hnd') = Drop(fifo, call'.req)
          /\ (/\ call.fn = "enqueue_to_read_buffer"
              /\ call.in_buffer = 0
              /\ call.req <= RING_BUFFER_SIZE - 1
              /\ call'.req = call.req)
                 => dest' = PayloadRun(call.sent, call.sent + call.req)]_vars

\* a drain whose bytes wrapped around the end of the storage (two copies)
C7_Witness ==
    /\ call.fn = "drain_from_read_buffer"
    /\ ret = Len(dest)
    /\ ret >= 3
    /\ hnd.read_buffer_tail > 0
    /\ hnd.read_buffer_tail < ret
    /\ dest = PayloadRun(dest[1] - 1, dest[1] - 1 + ret)

\* C8: enqueue_to_read_buffer returns min(count, free space); called with a
\* count above the free space it appends the first free-space bytes of the
\* source and nothing else, and the bytes that were in the buffer stay as they
\* were.
C8_EnqueueTruncates ==
    [][(call'.fn = "enqueue_to_read_buffer") =>
          LET before == RingContents(hnd)
              free == RING_BUFFER_SIZE - 1 - Len(before)
              src == PayloadRun(devSent, devSent + call'.req)
          IN  /\ ret' = MIN(call'.req, free)
              /\ RingContents(hnd') = before \o Take(src, free)
              /\ Len(RingContents(hnd')) - Len(before) = ret']_vars

\* an enqueue of more bytes than fit, into a buffer that held some bytes
C8_Witness ==
    /\ call.fn = "enqueue_to_read_buffer"
    /\ call.in_buffer > 0
    /\ call.req > RING_BUFFER_SIZE - 1 - call.in_buffer
    /\ ret = RING_BUFFER_SIZE - 1 - call.in_buffer
    /\ ret > 0
    /\ bytes_in_read_buffer(hnd) = RING_BUFFER_SIZE - 1

\* ---- the bank buffer and read_callback ----
\* dst is the caller's destination, written at offset stream_bytes_read_so_far;
\* ptr is the memory from the source pointer on
transfer_bytes(h, dst, ptr, available) ==
    LET to_copy_from_store == MIN(h.stream_bytes_to_read, available)
    IN  [hnd  |-> [h EXCEPT !.stream_bytes_read_so_far = @ + to_copy_from_store,
                            !.stream_bytes_to_read = @ - to_copy_from_store],
         dest |-> SubSeq(dst, 1, h.stream_bytes_read_so_far)
                      \o SubSeq(ptr, 1, to_copy_from_store),
         ret  |-> to_copy_from_store]

\* the overflow test counts the cursor offset only (ice9.c:275), the write
\* goes behind the bytes already banked (ice9.c:279)
bank_bytes(h, ptr, to_bank) ==
    LET bank_used == h.extra_data_read_pointer
    IN  IF (to_bank + bank_used) >= BANK_SIZE
        THEN [hnd |-> h, ret |-> 0 - 1]
        ELSE [hnd |-> [h EXCEPT
                         !.extra_data_buffer =
                             Poke(@, h.extra_data_read_pointer + h.extra_data_bytes,
                                  SubSeq(ptr, 1, to_bank)),
                         !.extra_data_bytes = @ + to_bank],
              ret |-> 1]

\* memset(extra_data_buffer, 0, BANK_SIZE)
ClearBank(mem) == [i \in DOMAIN mem |-> IF i < BANK_SIZE THEN 0 ELSE mem[i]]

\* read_callback that leaves the read cursor where the withdrawal put it
read_callback_no_reset(h, dst, buffer) ==
    LET t1 == transfer_bytes(h, dst,
                  Peek(h.extra_data_buffer, h.extra_data_read_pointer,
                       h.extra_data_bytes),
                  h.extra_data_bytes)
        h2 == [t1.hnd EXCEPT !.extra_data_read_pointer = @ + t1.ret,
                             !.extra_data_bytes = @ - t1.ret]
        t2 == transfer_bytes(h2, t1.dest, buffer, Len(buffer))
        rest == SubSeq(buffer, t2.ret + 1, Len(buffer))
        length == Len(buffer) - t2.ret
    IN  IF t2.hnd.stream_bytes_to_read # 0
        THEN [hnd |-> t2.hnd, dest |-> t2.dest, ret |-> 0]
        ELSE IF length = 0
        THEN [hnd |-> t2.hnd, dest |-> t2.dest, ret |-> 1]
        ELSE LET b == bank_bytes(t2.hnd, rest, length)
             IN  [hnd |-> b.hnd, dest |-> t2.dest, ret |-> b.ret]

read_callback(h, dst, buffer) ==
    LET t1 == transfer_bytes(h, dst,
                  Peek(h.extra_data_buffer, h.extra_data_read_pointer,
                       h.extra_data_bytes),
                  h.extra_data_bytes)
        extra_data_bytes_was_nonzero == h.extra_data_bytes # 0
        h2 == [t1.hnd EXCEPT !.extra_data_read_pointer = @ + t1.ret,
                             !.extra_data_bytes = @ - t1.ret]
        h3 == IF extra_data_bytes_was_nonzero /\ (h2.extra_data_bytes = 0)
              THEN [h2 EXCEPT !.extra_data_read_pointer = 0,
                              !.extra_data_buffer = ClearBank(@)]
              ELSE h2
        t2 == transfer_bytes(h3, t1.dest, buffer, Len(buffer))
        rest == SubSeq(buffer, t2.ret + 1, Len(buffer))
        length == Len(buffer) - t2.ret
    IN  IF t2.hnd.stream_bytes_to_read # 0
        THEN [hnd |-> t2.hnd, dest |-> t2.dest, ret |-> 0]
        ELSE IF length = 0
        THEN [hnd |-> t2.hnd, dest |-> t2.dest, ret |-> 1]
        ELSE LET b == bank_bytes(t2.hnd, rest, length)
             IN  [hnd |-> b.hnd, dest |-> t2.dest, ret |-> b.ret]

\* the end of the bank's used region, as an offset into extra_data_buffer
BankEnd(h) == h.extra_data_read_pointer + h.extra_data_bytes

\* The streaming call of the packetizing-library backend: it records the
\* request in the handle, and the library's transfer loop then hands every
\* chunk it receives to read_callback, the chunks of a transfer already under
\* way included, until the loop has wound down after a non-zero return.
StreamRequest ==
    /\ pc = "idle"
    /\ \E n \in 0..MaxReq :
        /\ hnd' = [hnd EXCEPT !.stream_bytes_to_read = n,
                              !.stream_bytes_read_so_far = 0]
        /\ call' = [fn |-> "stream_request", req |-> n,
                    in_buffer |-> hnd.extra_data_bytes, avail |-> 0,
                    sent |-> devSent, cursor |-> hnd.extra_data_read_pointer]
    /\ pc' = "streaming"
    /\ dest' = <<>>
    /\ ret' = 0
    /\ result' = "none"
    /\ UNCHANGED <<num_bytes, xfer, avail, devSent, delivered, fifo, aux>>

\* one invocation of read_callback with a chunk of len destuffed bytes
CallbackStep(len) ==
    LET buffer == PayloadRun(devSent, devSent + len)
        r == read_callback(hnd, dest, buffer)
    IN  /\ devSent + len <= MaxPayload
        /\ BankEnd(hnd) + len <= BANK_SIZE + BankSlack
        /\ hnd' = r.hnd
        /\ dest' = r.dest
        /\ ret' = r.ret
        /\ delivered' = delivered + (Len(r.dest) - Len(dest))
        /\ devSent' = devSent + len
        /\ call' = [fn |-> "read_callback", req |-> len,
                    in_buffer |-> hnd.extra_data_bytes, avail |-> 0,
                    sent |-> devSent, cursor |-> hnd.extra_data_read_pointer]
        /\ UNCHANGED aux

ReadCallback ==
    /\ pc = "streaming"
    /\ \E len \in 0..MaxChunk : CallbackStep(len)
    /\ UNCHANGED <<pc, num_bytes, result, xfer, avail, fifo, conc>>

\* the memcpy of bank_bytes wrote behind the end of the bank's allocation and
\* the process did not survive it
ReadCallbackFault ==
    /\ pc = "streaming"
    /\ \E len \in 0..MaxChunk :
        /\ CallbackStep(len)
        /\ BankEnd(hnd') > BANK_SIZE
    /\ pc' = "faulted"
    /\ UNCHANGED <<num_bytes, result, xfer, avail, fifo, conc>>

StreamReturn ==
    /\ pc = "streaming"
    /\ ret # 0
    /\ pc' = "idle"
    /\ result' = IF ret > 0 THEN "OK" ELSE "Error"
    /\ UNCHANGED <<hnd, num_bytes, dest, call, ret, xfer, avail, devSent,
                   delivered, fifo, aux>>

NextBank == StreamRequest \/ ReadCallback \/ ReadCallbackFault \/ StreamReturn

SpecBank == Init /\ [][NextBank]_vars

\* C9: in every state reached through read_callback invocations the bank's
\* written region, from the read cursor to the end of the banked bytes, lies
\* inside the bank (bank_bytes reports an append that would not fit and
\* leaves the bank as it was).
C9_BankStaysInsideCapacity == BankEnd(hnd) <= BANK_SIZE

\* C10: the bank is reset exactly when a withdrawal drains it to zero.  In
\* every state an empty bank has its read cursor at offset zero.  A
\* read_callback whose withdrawal leaves no byte in the bank has the cursor at
\* the start afterwards, and what it banks then lies at offset zero; one whose
\* withdrawal leaves bytes in the bank leaves the cursor behind the bytes
\* withdrawn; and the cursor only goes back when a withdrawal took the last
\* banked byte.
C10_BankResetOnDrain ==
    /\ [](hnd.extra_data_bytes = 0 => hnd.extra_data_read_pointer = 0)
    /\ [][(call'.fn = "read_callback") =>
            LET had == hnd.extra_data_bytes
                withdrawn == MIN(hnd.stream_bytes_to_read, had)
                chunk == PayloadRun(devSent, devSent')
                banked == hnd'.extra_data_bytes
            IN  /\ (withdrawn = had) =>
                       /\ hnd'.extra_data_read_pointer = 0
                       /\ Peek(hnd'.extra_data_buffer, 0, banked)
                              = SubSeq(chunk, Len(chunk) - banked + 1, Len(chunk))
                /\ (had > 0 /\ withdrawn < had) =>
                       hnd'.extra_data_read_pointer
                           = hnd.extra_data_read_pointer + withdrawn
                /\ (hnd'.extra_data_read_pointer < hnd.extra_data_read_pointer) =>
                       (had > 0 /\ withdrawn = had)]_vars

\* a read_callback that took the last bytes of a bank whose cursor had
\* advanced, and banked a new leftover at offset zero
C10_Witness ==
    /\ call.fn = "read_callback"
    /\ call.cursor > 0
    /\ call.in_buffer > 0
    /\ hnd.extra_data_read_pointer = 0
    /\ hnd.extra_data_bytes > 0
    /\ ret = 1
    /\ hnd.extra_data_buffer[0] = devSent - hnd.extra_data_bytes + 1

\* ---- the streaming scenario on ice9_stream_read ----
\* an ice9_stream_read of n bytes that found the ring buffer empty, was fed one
\* transfer carrying m > n payload bytes, and returned
StreamFedMoreThanAsked ==
    /\ call.fn = "ice9_stream_read"
    /\ pc = "idle"
    /\ call.in_buffer = 0
    /\ xfer.ret = 0
    /\ devSent - call.sent = PayloadIn(xfer.bytes_read)
    /\ PayloadIn(xfer.bytes_read) > call.req

InitDestuff ==
    /\ wire = <<>>
    /\ device = NoDevice
    /\ ecode = "OK"
    /\ allocated = Owned(1)
    /\ calls = 0
    /\ int_data = <<0, 0>>
    /\ threads = NoThreads
    /\ log = NoLog
    /\ hnd = ice9_new
    /\ pc = "idle"
    /\ num_bytes = 0
    /\ dest = <<>>
    /\ result = "none"
    /\ call = NoCall
    /\ ret = 0
    /\ xfer = NoXfer
    /\ delivered = 0
    /\ fifo = <<>>
    /\ avail = 0
    /\ devSent \in 0..MaxPayload

\* lines 347-359 on a transfer of L bytes: dest is buffer_stripped
Destuff ==
    /\ pc = "idle"
    /\ \E L \in 0..STREAM_XFER :
        LET d == destuff(XferBuffer(L, devSent), 0, L)
        IN  /\ ~d.negative_copy
            /\ dest' = d.stripped
            /\ ret' = d.valid_read
            /\ xfer' = [ret |-> 0, bytes_read |-> L]
            /\ call' = [fn |-> "destuff", req |-> L, in_buffer |-> 0, avail |-> 0,
                        sent |-> devSent, cursor |-> 0]
    /\ UNCHANGED <<hnd, pc, num_bytes, result, avail, devSent, delivered, fifo, aux>>

\* lines 352-355 on a transfer whose last chunk is shorter than the header
DestuffMalformed ==
    /\ pc = "idle"
    /\ \E L \in 0..STREAM_XFER :
        /\ destuff(XferBuffer(L, devSent), 0, L).negative_copy
        /\ xfer' = [ret |-> 0, bytes_read |-> L]
        /\ call' = [fn |-> "destuff", req |-> L, in_buffer |-> 0, avail |-> 0,
                    sent |-> devSent, cursor |-> 0]
    /\ pc' = "faulted"
    /\ UNCHANGED <<hnd, num_bytes, dest, result, ret, avail, devSent, delivered, fifo, aux>>

NextDestuff == Destuff \/ DestuffMalformed

SpecDestuff == InitDestuff /\ [][NextDestuff]_vars

\* C12: for a transfer of k full strides, or of k full strides and a last
\* chunk of r bytes with HEADER < r < STRIDE, the destuffing loop produces
\* k * PAYLOAD (plus r - HEADER) bytes, and they are the bytes that follow the
\* header in each stride, stride after stride.
C12_DestuffConcatenatesPayload ==
    (call.fn = "destuff" /\ pc = "idle") =>
        LET L == call.req
            k == L \div STRIDE
            r == L % STRIDE
            buffer == XferBuffer(L, call.sent)
            n == k * PAYLOAD + (IF r > HEADER THEN r - HEADER ELSE 0)
        IN  (r = 0 \/ r > HEADER) =>
                /\ ret = n
                /\ Len(dest) = n
                /\ \A j \in 1..n :
                       dest[j] = buffer[((j - 1) \div PAYLOAD) * STRIDE + HEADER
                                           + ((j - 1) % PAYLOAD) + 1]
                /\ \A j \in 1..n : dest[j] = call.sent + j

\* a transfer of full strides and a partial last one was destuffed
C12_Witness ==
    /\ call.fn = "destuff"
    /\ pc = "idle"
    /\ call.req > STRIDE
    /\ call.req % STRIDE > HEADER
    /\ ret = PAYLOAD + (call.req % STRIDE) - HEADER
    /\ dest = PayloadRun(call.sent, call.sent + ret)
    /\ call.sent > 0

\* ---- ice9_write and the register protocol ----
\* a & b and a | b on naturals
RECURSIVE BitAnd(_, _)
BitAnd(a, b) ==
    IF a = 0 \/ b = 0 THEN 0
    ELSE (a % 2) * (b % 2) + 2 * BitAnd(a \div 2, b \div 2)

RECURSIVE BitOr(_, _)
BitOr(a, b) ==
    IF a = 0 THEN b
    ELSE IF b = 0 THEN a
    ELSE (IF (a % 2) + (b % 2) > 0 THEN 1 ELSE 0) + 2 * BitOr(a \div 2, b \div 2)

\* (uint8_t*)(data) over len * 2 bytes: the words' bytes as they lie in the
\* memory of a little-endian host
BytesOf(words) ==
    [i \in 1..(2 * Len(words)) |->
        IF i % 2 = 1 THEN words[(i + 1) \div 2] % 256
                     ELSE words[i \div 2] \div 256]

\* the uint16_t words that a run of bytes forms in memory
WordsOf(bytes) ==
    [i \in 1..(Len(bytes) \div 2) |-> bytes[2 * i - 1] + 256 * bytes[2 * i]]

\* what libusb_bulk_transfer(0x02, data, n) may report: a negative code, or
\* success with all, all but one, or none of the n bytes transferred
WriteOutcomes(n) ==
    {[ret |-> 0, actual_length |-> k] : k \in {0, n - 1, n} \cap (0..n)}
        \cup {[ret |-> c, actual_length |-> 0] : c \in LibusbErrors}

\* ice9_write that takes any transfer without a negative code for a full write
ice9_write_ignores_short(data, o) ==
    [result |-> IF o.ret < 0 THEN "LibUSBIOError" ELSE "OK",
     wire   |-> <<[ep |-> 2, data |-> data, length |-> Len(data),
                   ret |-> o.ret, transferred |-> o.actual_length]>>]

\* lines 415-424; o is the outcome of the bulk transfer
ice9_write(data, o) ==
    [result |-> IF o.ret < 0 THEN "LibUSBIOError"
                ELSE IF o.actual_length # Len(data) THEN "PartialWrite"
                ELSE "OK",
     wire   |-> <<[ep |-> 2, data |-> data, length |-> Len(data),
                   ret |-> o.ret, transferred |-> o.actual_length]>>]

ice9_write_words(data, o) == ice9_write(BytesOf(data), o)

ice9_write_word(data, o) == ice9_write_words(<<data>>, o)

\* a bulk write that reached the device whole
Complete(e) == e.ret >= 0 /\ e.transferred = e.length

\* The device end of the wire protocol.  The device answers the frame of one
\* bulk write: a read header with the words it keeps for the address, a ping
\* with the word `reply`; the word 0xFFFF stops its streaming and a word
\* 0x05aa starts it.  A write that failed or was cut short is no frame.
DeviceReceives(dev, w, reply) ==
    LET e == w.wire[1]
        ws == WordsOf(e.data)
    IN  IF ~Complete(e) \/ e.length % 2 # 0
        THEN dev
        ELSE IF Len(ws) = 2 /\ ws[1] \div 256 = 2 /\ (ws[1] % 256) \in Addresses
        THEN [dev EXCEPT !.out = @ \o BytesOf(Take(dev.mem[ws[1] % 256], ws[2]))]
        ELSE IF Len(ws) = 1 /\ ws[1] \div 256 = 1
        THEN [dev EXCEPT !.out = @ \o BytesOf(<<reply>>)]
        ELSE IF Len(ws) = 1 /\ ws[1] = 65535
        THEN [dev EXCEPT !.stream = FALSE]
        ELSE IF Len(ws) = 1 /\ ws[1] \div 256 = 5
        THEN [dev EXCEPT !.stream = TRUE]
        ELSE dev

\* The device keeps the words of a write frame whose header and payload both
\* reached it whole.
DeviceStores(dev, wire_) ==
    IF Len(wire_) = 2 /\ Complete(wire_[1]) /\ Complete(wire_[2])
    THEN LET h == WordsOf(wire_[1].data)
         IN  IF Len(h) = 2 /\ h[1] \div 256 = 3 /\ (h[1] % 256) \in Addresses
                 /\ h[2] = wire_[2].length \div 2
             THEN [dev EXCEPT !.mem[h[1] % 256] = WordsOf(wire_[2].data)]
             ELSE dev
    ELSE dev

\* ice9_write_data_to_address that writes the payload whatever the header
\* write returned
ice9_write_data_to_address_no_try(dev, address, data, o1, o2) ==
    LET header == <<BitOr(768, address), Len(data)>>
        w1 == ice9_write_words(header, o1)
        w2 == ice9_write_words(data, o2)
    IN  [result |-> w2.result, wire |-> w1.wire \o w2.wire,
         device |-> DeviceStores(dev, w1.wire \o w2.wire), ecode |-> w1.result]

\* lines 438-444; o1 and o2 are the outcomes of the two bulk transfers
ice9_write_data_to_address(dev, address, data, o1, o2) ==
    LET header == <<BitOr(768, address), Len(data)>>
        w1 == ice9_write_words(header, o1)
    IN  IF w1.result # "OK"
        THEN [result |-> w1.result, wire |-> w1.wire, device |-> dev,
              ecode |-> w1.result]
        ELSE LET w2 == ice9_write_words(data, o2)
             IN  [result |-> w2.result, wire |-> w1.wire \o w2.wire,
                  device |-> DeviceStores(dev, w1.wire \o w2.wire),
                  ecode |-> w1.result]

\* the words of a call's payload
WordSeqs == {SubSeq(WordList, 1, n) : n \in 0..MIN(MaxWords, Len(WordList))}

\* the record of a register-protocol call: the call, its arguments, and the
\* reply bytes the device owed when the call was made
ProtoCall(fn, address, data, len) ==
    [fn |-> fn, req |-> len, in_buffer |-> bytes_in_read_buffer(hnd), avail |-> 0,
     sent |-> 0, cursor |-> 0, address |-> address, data |-> data,
     owed |-> Len(device.out)]

Ice9Write ==
    /\ pc = "idle"
    /\ calls < MaxCalls
    /\ calls' = calls + 1
    /\ \E n \in 0..MaxWriteLen :
        LET data == [i \in 1..n |-> 16 + i]
        IN  \E o \in WriteOutcomes(n) :
                LET w == ice9_write(data, o)
                IN  /\ result' = w.result
                    /\ wire' = w.wire
                    /\ call' = ProtoCall("ice9_write", 0, data, n)
    /\ dest' = <<>>
    /\ UNCHANGED <<hnd, pc, num_bytes, ret, xfer, avail, devSent, delivered, fifo,
                   device, ecode, allocated, int_data, conc>>

WriteDataToAddress ==
    /\ pc = "idle"
    /\ calls < MaxCalls
    /\ calls' = calls + 1
    /\ \E address \in Addresses, data \in WordSeqs :
        \E o1 \in WriteOutcomes(4) :
        \E o2 \in (IF o1.ret >= 0 /\ o1.actual_length = 4
                    THEN WriteOutcomes(2 * Len(data)) ELSE {o1}) :
            LET r == ice9_write_data_to_address(device, address, data, o1, o2)
            IN  /\ result' = r.result
                /\ wire' = r.wire
                /\ device' = r.device
                /\ ecode' = r.ecode
                /\ call' = ProtoCall("ice9_write_data_to_address", address, data,
                                     Len(data))
    /\ dest' = <<>>
    /\ UNCHANGED <<hnd, pc, num_bytes, ret, xfer, avail, devSent, delivered, fifo,
                   allocated, int_data, conc>>

NextWrite == Ice9Write \/ WriteDataToAddress

SpecWrite == Init /\ [][NextWrite]_vars

\* the bytes of a successful transfer of L bytes from a device owing `out`
ReplyBuffer(L, out) ==
    [i \in 1..L |-> IF i <= HEADER THEN StatusByte ELSE out[i - HEADER]]

\* lines 380-383 and 412: ice9_read up to its transfer loop; result is "none"
\* when the loop is entered
ice9_read(h, n) ==
    LET d == drain_from_read_buffer(h, n)
    IN  [hnd |-> d.hnd, dest |-> d.bytes, num_bytes |-> n - d.ret,
         result |-> IF n - d.ret > 0 THEN "none" ELSE "OK"]

\* ice9_read_words that asks for len bytes
ice9_read_words_len_bytes(h, len) == ice9_read(h, len)

ice9_read_words(h, len) == ice9_read(h, len * 2)

\* lines 464-470 up to the transfer loop of the read; o1 is the outcome of the
\* header write
ice9_read_data_from_address(h, dev, address, len, o1) ==
    LET header == <<BitOr(512, address), len>>
        w1 == ice9_write_words(header, o1)
        dev1 == DeviceReceives(dev, w1, 0)
    IN  IF w1.result # "OK"
        THEN [hnd |-> h, dest |-> <<>>, num_bytes |-> 0, device |-> dev1,
              result |-> w1.result, wire |-> w1.wire, ecode |-> w1.result]
        ELSE LET r == ice9_read_words(h, len)
             IN  [hnd |-> r.hnd, dest |-> r.dest, num_bytes |-> r.num_bytes,
                  device |-> dev1, result |-> r.result, wire |-> w1.wire,
                  ecode |-> w1.result]

ice9_send_ping(pingid, o) == ice9_write_word(BitOr(256, pingid), o)

\* ping_reply that compares the whole reply word with the id
ping_reply_no_mask(pingid, reply_bytes) ==
    LET pingret == WordsOf(reply_bytes)[1]
    IN  IF pingret # pingid THEN "PingMismatch" ELSE "OK"

\* lines 481-486: the reply word is masked and compared with the id
ping_reply(pingid, reply_bytes) ==
    LET pingret == BitAnd(WordsOf(reply_bytes)[1], 255)
    IN  IF pingret # pingid THEN "PingMismatch" ELSE "OK"

\* ice9_ping_bridge that refuses to ping a device that is streaming
ice9_ping_bridge_rejects_streaming(h, dev, pingid, reply, o1) ==
    IF dev.stream
    THEN [hnd |-> h, dest |-> <<>>, num_bytes |-> 0, device |-> dev,
          result |-> "Error", wire |-> <<>>, ecode |-> "Error"]
    ELSE LET w1 == ice9_send_ping(pingid, o1)
             dev1 == DeviceReceives(dev, w1, reply)
             r == ice9_read_words(h, 1)
         IN  IF w1.result # "OK"
             THEN [hnd |-> h, dest |-> <<>>, num_bytes |-> 0, device |-> dev1,
                   result |-> w1.result, wire |-> w1.wire, ecode |-> w1.result]
             ELSE [hnd |-> r.hnd, dest |-> r.dest, num_bytes |-> r.num_bytes,
                   device |-> dev1,
                   result |-> IF r.result = "OK" THEN ping_reply(pingid, r.dest)
                              ELSE r.result,
                   wire |-> w1.wire,
                   ecode |-> IF r.result = "OK" THEN "OK" ELSE w1.result]

\* lines 476-480 up to the transfer loop of the read; reply is the word the
\* device answers the ping with
ice9_ping_bridge(h, dev, pingid, reply, o1) ==
    LET w1 == ice9_send_ping(pingid, o1)
        dev1 == DeviceReceives(dev, w1, reply)
    IN  IF w1.result # "OK"
        THEN [hnd |-> h, dest |-> <<>>, num_bytes |-> 0, device |-> dev1,
              result |-> w1.result, wire |-> w1.wire, ecode |-> w1.result]
        ELSE LET r == ice9_read_words(h, 1)
             IN  [hnd |-> r.hnd, dest |-> r.dest, num_bytes |-> r.num_bytes,
                  device |-> dev1,
                  result |-> IF r.result = "OK" THEN ping_reply(pingid, r.dest)
                             ELSE r.result,
                  wire |-> w1.wire,
                  ecode |-> IF r.result = "OK" THEN "OK" ELSE w1.result]

\* the effect on the model's variables of a call's steps up to its first
\* bulk-in transfer; the device takes a request when it owes no reply or is
\* streaming
ProtoEntryAt(r, next_pc) ==
    /\ calls < MaxCalls
    /\ calls' = calls + 1
    /\ (device.out = <<>>) \/ (r.device.out = device.out) \/ device.stream
    /\ hnd' = r.hnd
    /\ dest' = r.dest
    /\ num_bytes' = r.num_bytes
    /\ device' = r.device
    /\ result' = r.result
    /\ wire' = r.wire
    /\ ecode' = r.ecode
    /\ pc' = next_pc
    /\ UNCHANGED <<ret, xfer, avail, devSent, delivered, fifo, allocated, int_data, conc>>

\* a call that returns unless the transfer loop of its read is entered
ProtoEntry(r) ==
    ProtoEntryAt(r, IF r.result = "none" THEN "register_read" ELSE "idle")

ReadDataFromAddress ==
    /\ pc = "idle"
    /\ \E address \in Addresses, len \in 0..MaxWords :
        \E o1 \in WriteOutcomes(4) :
            /\ ProtoEntry(ice9_read_data_from_address(hnd, device, address, len, o1))
            /\ call' = ProtoCall("ice9_read_data_from_address", address, <<>>, len)

\* words a device may answer a ping of id with: the id, the id under a
\* non-zero high byte, 0x99, and the id's complement in the low byte
PingReplies(id) == {id, 4608 + id, 153, 255 - id}

PingBridge ==
    /\ pc = "idle"
    /\ \E pingid \in PingIds :
        \E reply \in PingReplies(pingid), o1 \in WriteOutcomes(2) :
            /\ ProtoEntry(ice9_ping_bridge(hnd, device, pingid, reply, o1))
            /\ call' = ProtoCall("ice9_ping_bridge", pingid, <<>>, 1)

\* the bulk-in transfers the pending call has made
ReadsIssued == Len(SelectSeq(wire, LAMBDA e : e.ep = 129 /\ e.length = READ_XFER))

\* lines 385-412 inside a register-protocol call: one pass of the transfer
\* loop of ice9_read, and the rest of the call when the loop ends
RegisterReadTransfer ==
    /\ pc = "register_read"
    /\ \E o \in 0..READ_XFER :
        LET buffer == ReplyBuffer(o, device.out)
            c == IF o > HEADER THEN o - HEADER ELSE 0
            b == ice9_read_body(hnd, num_bytes, buffer)
        IN  /\ ReadsIssued < MaxXfers
            /\ c <= Len(device.out)
            /\ hnd' = b.hnd
            /\ dest' = dest \o b.out
            /\ num_bytes' = b.num_bytes
            /\ device' = [device EXCEPT !.out = Drop(@, c)]
            /\ wire' = Append(wire, [ep |-> 129, data |-> buffer, length |-> READ_XFER,
                                      ret |-> 0, transferred |-> o])
            /\ IF b.num_bytes > 0
               THEN pc' = pc /\ result' = "none" /\ ecode' = ecode
               ELSE /\ pc' = IF call.fn = "ice9_read_int_from_address"
                             THEN "read_int" ELSE "idle"
                    /\ result' = IF call.fn = "ice9_ping_bridge"
                                 THEN ping_reply(call.address, dest \o b.out)
                                 ELSE IF call.fn = "ice9_read_int_from_address"
                                 THEN "none"
                                 ELSE "OK"
                    /\ ecode' = IF call.fn = "ice9_read_data_from_address"
                                THEN ecode ELSE "OK"
    /\ UNCHANGED <<call, ret, xfer, avail, devSent, delivered, fifo, allocated, calls,
                   int_data, conc>>

\* lines 393-396 inside a register-protocol call: the transfer timed out
RegisterReadTransferError ==
    /\ pc = "register_read"
    /\ \E code \in {0 - 7} :
        wire' = Append(wire, [ep |-> 129, data |-> <<>>, length |-> READ_XFER,
                              ret |-> code, transferred |-> 0])
    /\ pc' = "idle"
    /\ result' = IF call.fn = "ice9_fifo_mode" THEN "OK" ELSE "Error"
    /\ ecode' = IF call.fn = "ice9_read_data_from_address" THEN ecode ELSE "Error"
    /\ UNCHANGED <<hnd, num_bytes, dest, call, ret, xfer, avail, devSent, delivered,
                   fifo, device, allocated, calls, int_data, conc>>

\* a register write that the device received whole
WriteDataToAddressDone == WriteDataToAddress /\ result' = "OK"

NextRegs ==
    \/ WriteDataToAddressDone \/ ReadDataFromAddress \/ PingBridge
    \/ RegisterReadTransfer \/ RegisterReadTransferError

\* the handle after reads that left up to MaxStale bytes in the ring buffer
InitRegs ==
    /\ wire = <<>>
    /\ device = NoDevice
    /\ ecode = "OK"
    /\ allocated = Owned(1)
    /\ calls = 0
    /\ int_data = <<0, 0>>
    /\ threads = NoThreads
    /\ log = NoLog
    /\ \E k \in 0..MaxStale :
        hnd = enqueue_to_read_buffer(ice9_new, <<52, 18, 120, 86>>, k).hnd
    /\ pc = "idle"
    /\ num_bytes = 0
    /\ dest = <<>>
    /\ result = "none"
    /\ call = NoCall
    /\ ret = 0
    /\ xfer = NoXfer
    /\ devSent = 0
    /\ delivered = 0
    /\ fifo = <<>>
    /\ avail = 0

SpecRegs == InitRegs /\ [][NextRegs]_vars

\* ---- claims about the write side of the register protocol ----
\* the result that one bulk write on the wire stands for
WriteKind(e) ==
    IF e.ret < 0 THEN "LibUSBIOError"
    ELSE IF e.transferred # e.length THEN "PartialWrite"
    ELSE "OK"

\* C13: ice9_write_data_to_address(address, data, len) puts on the wire first
\* the 4-byte header [0x0300 | address, len] and then the len payload words,
\* each in one bulk write that is never repeated; when the header write fails
\* nothing follows it and its error kind is the result; when it succeeds the
\* result is that of the payload write.
C13_HeaderThenPayload ==
    [][(call'.fn = "ice9_write_data_to_address" /\ calls' # calls) =>
        LET a == call'.address
            d == call'.data
            h == wire'[1]
        IN  /\ Len(wire') >= 1
            /\ h.ep = 2
            /\ h.length = 4
            /\ h.data = BytesOf(<<768 + a, Len(d)>>)
            /\ IF WriteKind(h) # "OK"
               THEN /\ Len(wire') = 1
                    /\ result' = WriteKind(h)
                    /\ result' # "OK"
               ELSE /\ Len(wire') = 2
                    /\ wire'[2].ep = 2
                    /\ wire'[2].length = 2 * Len(d)
                    /\ wire'[2].data = BytesOf(d)
                    /\ result' = WriteKind(wire'[2])]_vars

\* a two-word register write whose header went through and whose payload was
\* cut short
C13_Witness ==
    /\ call.fn = "ice9_write_data_to_address"
    /\ Len(call.data) = 2
    /\ Len(wire) = 2
    /\ Complete(wire[1])
    /\ wire[2].ret = 0
    /\ wire[2].transferred = 3
    /\ result = "PartialWrite"

\* C17: ice9_write issues one bulk write of num_bytes bytes and does not
\* retry; the result is OK exactly when the transfer succeeds with all bytes
\* transferred, PartialWrite exactly when it succeeds with another count, an
\* error kind exactly when the transfer returns a negative code; the ring
\* buffer and the bank are left as they were.
C17_WriteOnceNoRetry ==
    [][(call'.fn = "ice9_write" /\ calls' # calls) =>
        LET e == wire'[1]
        IN  /\ Len(wire') = 1
            /\ e.ep = 2
            /\ e.data = call'.data
            /\ e.length = call'.req
            /\ (result' = "OK") <=> (e.ret >= 0 /\ e.transferred = call'.req)
            /\ (result' = "PartialWrite") <=> (e.ret >= 0 /\ e.transferred # call'.req)
            /\ (result' \notin {"OK", "PartialWrite"}) <=> (e.ret < 0)
            /\ hnd' = hnd]_vars

\* a three-byte write of which the device took two bytes
C17_Witness ==
    /\ call.fn = "ice9_write"
    /\ call.req = 3
    /\ Len(wire) = 1
    /\ wire[1].ret = 0
    /\ wire[1].transferred = 2
    /\ result = "PartialWrite"
    /\ hnd = ice9_new

\* ---- claims about the read side of the register protocol ----
\* the last call was op and has returned
Returned(op) == pc = "idle" /\ call.fn = op /\ result # "none"

\* C14: ice9_read_data_from_address(address, data, len) first writes the
\* header [0x0200 | address, len] and only then reads 2 * len bytes through
\* ice9_read; when the header write fails there is no read, the ring buffer is
\* as it was and the result is the write's error kind.  On a handle with an
\* empty ring buffer, and a device that owes no earlier reply and answers a
\* read header with the words last written to the address, the call returns
\* those words in their order.
C14_HeaderThenReliableRead ==
    /\ [][(call'.fn = "ice9_read_data_from_address" /\ calls' # calls) =>
            LET h == wire'[1]
                len == call'.req
            IN  /\ Len(wire') = 1
                /\ h.ep = 2
                /\ h.length = 4
                /\ h.data = BytesOf(<<512 + call'.address, len>>)
                /\ IF WriteKind(h) # "OK"
                   THEN /\ pc' = "idle"
                        /\ result' = WriteKind(h)
                        /\ hnd' = hnd
                        /\ device'.out = device.out
                   ELSE /\ Len(dest') + num_bytes' = 2 * len
                        /\ dest' = Take(RingContents(hnd), 2 * len)
                        /\ (pc' = "idle") <=> (2 * len <= bytes_in_read_buffer(hnd))]_vars
    /\ [](Returned("ice9_read_data_from_address") =>
            /\ wire[1].ep = 2
            /\ \A i \in 2..Len(wire) : wire[i].ep = 129 /\ WriteKind(wire[1]) = "OK"
            /\ (result = "OK") =>
                /\ Len(dest) = 2 * call.req
                /\ (call.in_buffer = 0 /\ call.owed = 0) =>
                        WordsOf(dest) = Take(device.mem[call.address], call.req))

\* two words written to an address came back over two bulk-in transfers
C14_Witness ==
    /\ Returned("ice9_read_data_from_address")
    /\ result = "OK"
    /\ call.req = 2
    /\ call.in_buffer = 0
    /\ call.owed = 0
    /\ Len(wire) = 3
    /\ WordsOf(dest) = <<4660, 22136>>
    /\ device.mem[call.address] = <<4660, 22136>>

\* the bulk-in transfers of the last call all returned without a negative code
ReadSucceeded == \A i \in 2..Len(wire) : wire[i].ret >= 0

\* C16: ice9_ping_bridge(id) writes the one word 0x0100 | id and then reads
\* one word; the result is OK exactly when the write and the read both
\* succeed and the low 8 bits of the reply equal id, PingMismatch exactly when
\* both succeed and the low byte differs; a failing write or read gives that
\* call's error kind, and after a failing write no read is issued.
C16_PingResult ==
    /\ [][(call'.fn = "ice9_ping_bridge" /\ calls' # calls) =>
            LET h == wire'[1]
            IN  /\ Len(wire') = 1
                /\ h.ep = 2
                /\ h.length = 2
                /\ h.data = BytesOf(<<256 + call'.address>>)
                /\ IF WriteKind(h) # "OK"
                   THEN pc' = "idle" /\ result' = WriteKind(h) /\ hnd' = hnd
                   ELSE Len(dest') + num_bytes' = 2]_vars
    /\ [](Returned("ice9_ping_bridge") =>
            LET id == call.address
                wrote == WriteKind(wire[1]) = "OK"
                read == wrote /\ ReadSucceeded
            IN  /\ \A i \in 2..Len(wire) : wire[i].ep = 129 /\ wrote
                /\ read => Len(dest) = 2
                /\ (result = "OK") <=> (read /\ WordsOf(dest)[1] % 256 = id)
                /\ (result = "PingMismatch") <=> (read /\ WordsOf(dest)[1] % 256 # id)
                /\ ~wrote => result = WriteKind(wire[1]) /\ Len(wire) = 1
                /\ (wrote /\ ~read) => result = "Error")

\* a ping of 0x67 answered with 0x1267 returned OK
C16_Witness ==
    /\ Returned("ice9_ping_bridge")
    /\ call.address = 103
    /\ call.in_buffer = 0
    /\ WordsOf(dest) = <<4711>>
    /\ result = "OK"

\* ---- 32-bit values over the register protocol ----
\* A 32-bit quantity is written as its two 16-bit halves <<high, low>>, the
\* digits of the value in base 2^16.
\* uint32_t values written: zero, 0x00010002, 0x7FFF8000 (the largest high word
\* with bit 15 clear), 0x80000000, 0xAABBCCDD, 0xFFFFFFFF
IntValues ==
    {<<0, 0>>, <<1, 2>>, <<32767, 32768>>, <<32768, 0>>, <<43707, 52445>>,
     <<65535, 65535>>}

\* x >> 16 on a 32-bit quantity
Shr16(x) == <<0, x[1]>>

\* x & 0xFFFF on a 32-bit quantity
Low16(x) == <<0, x[2]>>

\* x | y on 32-bit quantities
Or32(x, y) == <<BitOr(x[1], y[1]), BitOr(x[2], y[2])>>

\* the conversion of a 32-bit quantity to uint16_t
ToUint16(x) == x[2]

\* the promotion of a uint16_t to int
ToInt(w) == <<0, w>>

\* lines 450-455; o1 and o2 are the outcomes of the two bulk transfers
ice9_write_int_to_address(dev, address, value, o1, o2) ==
    LET vals == <<ToUint16(Low16(Shr16(value))), ToUint16(Low16(value))>>
    IN  ice9_write_data_to_address(dev, address, vals, o1, o2)

WriteIntToAddress ==
    /\ pc = "idle"
    /\ calls < MaxCalls
    /\ calls' = calls + 1
    /\ \E address \in Addresses, value \in IntValues :
        \E o1 \in WriteOutcomes(4) :
        \E o2 \in (IF o1.ret >= 0 /\ o1.actual_length = 4
                    THEN WriteOutcomes(4) ELSE {o1}) :
            LET r == ice9_write_int_to_address(device, address, value, o1, o2)
            IN  /\ result' = r.result
                /\ wire' = r.wire
                /\ device' = r.device
                /\ ecode' = r.ecode
                /\ call' = ProtoCall("ice9_write_int_to_address", address,
                                     value, 2)
    /\ dest' = <<>>
    /\ UNCHANGED <<hnd, pc, num_bytes, ret, xfer, avail, devSent, delivered, fifo,
                   allocated, int_data, conc>>

\* lines 457-459: the call up to the first bulk-in transfer of its read
ReadIntFromAddress ==
    /\ pc = "idle"
    /\ \E address \in Addresses, o1 \in WriteOutcomes(4) :
        LET r == ice9_read_data_from_address(hnd, device, address, 2, o1)
        IN  /\ ProtoEntryAt([r EXCEPT !.result = IF @ = "OK" THEN "none" ELSE @],
                            IF r.result = "none" THEN "register_read"
                            ELSE IF r.result = "OK" THEN "read_int"
                            ELSE "idle")
            /\ call' = ProtoCall("ice9_read_int_from_address", address, <<>>, 2)

\* line 460, (reply[0] << 16) | reply[1]: reply[0] is promoted to a 32-bit int
\* before the shift.  A high word below 0x8000 gives the value.  With bit 15 set
\* the shift overflows int and is undefined: a build yields the bits of the
\* wrapped int, or stops the program at the shift when it checks shifts.
read_int_values(hi, lo) ==
    LET shifted == <<ToInt(hi)[2], 0>>
        bits == Or32(shifted, ToInt(lo))
    IN  IF hi < 32768
        THEN {[pc |-> "idle", value |-> bits]}
        ELSE {[pc |-> "idle", value |-> bits], [pc |-> "stopped", value |-> bits]}

\* lines 460-461
ReadIntShift ==
    /\ pc = "read_int"
    /\ LET reply == WordsOf(dest)
       IN  \E v \in read_int_values(reply[1], reply[2]) :
            /\ pc' = v.pc
            /\ IF v.pc = "idle"
               THEN int_data' = v.value /\ result' = "OK"
               ELSE int_data' = int_data /\ result' = result
    /\ UNCHANGED <<hnd, num_bytes, dest, call, ret, xfer, avail, devSent, delivered,
                   fifo, wire, device, ecode, allocated, calls, conc>>

NextInt ==
    \/ WriteIntToAddress \/ ReadIntFromAddress
    \/ RegisterReadTransfer \/ RegisterReadTransferError \/ ReadIntShift

SpecInt == InitRegs /\ [][NextInt]_vars

ErrorKindOf(code) ==
    IF code = 0 - 1 THEN "LibUSBIOError"
    ELSE IF code = 0 - 4 THEN "LibUSBNoDeviceFound"
    ELSE IF code = 0 - 7 THEN "LibUSBTimeout"
    ELSE IF code = 0 - 9 THEN "LibUSBPipeError"
    ELSE "Error"

\* C18: a negative code returned by the bulk transfer of ice9_read or
\* ice9_stream_read comes back as the error kind of that code: distinct codes
\* give distinct kinds, and only a code without a kind gives Error.
C18_ErrorCodesMappedToKinds ==
    [][(pc \in {"ice9_read", "ice9_stream_read"} /\ xfer'.ret < 0) =>
          result' = ErrorKindOf(xfer'.ret)]_vars

\* ---- bringing the bridge up: ice9_usb_reset and ice9_fifo_mode ----
\* unsigned char dummy[4096] and jnk[4096], scaled
DUMMY_SIZE == 8

\* libusb_control_transfer(0x40, request, value) calls made in a row: all of
\* reqs, or those up to the one numbered fail, which returns the negative code
ControlRun(reqs, fail, code) ==
    [i \in 1..(IF fail \in 1..Len(reqs) THEN fail ELSE Len(reqs)) |->
        [ep |-> 0, data |-> reqs[i], length |-> 0,
         ret |-> IF i = fail THEN code ELSE 0, transferred |-> 0]]

\* the bulk read into dummy: rd is its return code; a read that succeeds takes
\* all the reply bytes the device owes
DummyRead(dev, rd) ==
    [ep |-> 129, data |-> <<>>, length |-> DUMMY_SIZE, ret |-> rd,
     transferred |-> IF rd < 0 THEN 0 ELSE HEADER + Len(dev.out)]

\* lines 127-166; fail numbers the control transfer that fails (0: none), rd is
\* the return code of the bulk read
ice9_usb_reset(dev, fail, code, rd) ==
    LET first == ControlRun(<<<<0, 0>>, <<0, 1>>, <<0, 1>>>>, fail, code)
        last == ControlRun(<<<<0, 1>>, <<0, 1>>, <<0, 1>>, <<0, 1>>>>, fail - 3, code)
    IN  IF fail \in 1..3
        THEN [result |-> "ResetFailed", wire |-> first, device |-> dev]
        ELSE IF rd < 0
        THEN [result |-> "ResetFailed", wire |-> Append(first, DummyRead(dev, rd)),
              device |-> dev]
        ELSE [result |-> IF fail \in 4..7 THEN "ResetFailed" ELSE "OK",
              wire |-> Append(first, DummyRead(dev, rd)) \o last,
              device |-> [dev EXCEPT !.out = <<>>]]

UsbReset ==
    /\ pc = "idle"
    /\ calls < MaxCalls
    /\ calls' = calls + 1
    /\ \E fail \in 0..7 :
        \E code \in (IF fail = 0 THEN {0} ELSE LibusbErrors) :
        \E rd \in (IF fail \in 1..3 THEN {0} ELSE LibusbErrors \cup {0}) :
        LET r == ice9_usb_reset(device, fail, code, rd)
        IN  /\ result' = r.result
            /\ wire' = r.wire
            /\ device' = r.device
    /\ call' = ProtoCall("ice9_usb_reset", 0, <<>>, 0)
    /\ dest' = <<>>
    /\ UNCHANGED <<hnd, pc, num_bytes, ret, xfer, avail, devSent, delivered, fifo,
                   ecode, allocated, int_data, conc>>

\* lines 214-252 up to the first bulk-in transfer of the closing ping; fail
\* numbers the control transfer that fails (0: none), rd is the return code of
\* the bulk read, o5 the outcome of the write of jnk, reply the word the device
\* answers the ping with and o6 the outcome of the ping's write
ice9_fifo_mode(h, dev, fail, code, rd, o5, reply, o6) ==
    LET ctl == ControlRun(<<<<0, 2>>, <<11, 255>>, <<11, 16639>>>>, fail, code)
        dummy == DummyRead(dev, rd)
        jnk == [ep |-> 2, data |-> [i \in 1..DUMMY_SIZE |-> 0], length |-> DUMMY_SIZE,
                ret |-> o5.ret, transferred |-> o5.actual_length]
        ping == ice9_ping_bridge(h, [dev EXCEPT !.out = <<>>], 103, reply, o6)
    IN  IF fail \in 1..3
        THEN [hnd |-> h, dest |-> <<>>, num_bytes |-> 0, device |-> dev,
              result |-> "CannotEnableBitBangMode", wire |-> ctl, ecode |-> ecode]
        ELSE IF rd < 0
        THEN [hnd |-> h, dest |-> <<>>, num_bytes |-> 0, device |-> dev,
              result |-> "ResetFailed", wire |-> Append(ctl, dummy), ecode |-> ecode]
        ELSE [ping EXCEPT !.result = IF @ = "none" THEN "none" ELSE "OK",
                          !.wire = ctl \o <<dummy, jnk>> \o @]

FifoMode ==
    /\ pc = "idle"
    /\ calls < MaxCalls
    /\ calls' = calls + 1
    /\ \E fail \in 0..3 :
        \E code \in (IF fail = 0 THEN {0} ELSE LibusbErrors) :
        \E rd \in (IF fail = 0 THEN LibusbErrors \cup {0} ELSE {0}) :
        \E o5 \in (IF fail = 0 /\ rd = 0 THEN WriteOutcomes(DUMMY_SIZE)
                    ELSE {[ret |-> 0, actual_length |-> 0]}) :
        \E o6 \in (IF fail = 0 /\ rd = 0 THEN WriteOutcomes(2) ELSE {o5}) :
        \E reply \in (IF fail = 0 /\ rd = 0 /\ o6.ret = 0 /\ o6.actual_length = 2
                       THEN PingReplies(103) ELSE {103}) :
            LET r == ice9_fifo_mode(hnd, device, fail, code, rd, o5, reply, o6)
            IN  /\ hnd' = r.hnd
                /\ dest' = r.dest
                /\ num_bytes' = r.num_bytes
                /\ device' = r.device
                /\ result' = r.result
                /\ wire' = r.wire
                /\ ecode' = r.ecode
                /\ pc' = IF r.result = "none" THEN "register_read" ELSE "idle"
    /\ call' = ProtoCall("ice9_fifo_mode", 103, <<>>, 1)
    /\ UNCHANGED <<ret, xfer, avail, devSent, delivered, fifo, allocated, int_data, conc>>

NextFifo ==
    \/ UsbReset \/ FifoMode \/ PingBridge
    \/ RegisterReadTransfer \/ RegisterReadTransferError

SpecFifo == InitRegs /\ [][NextFifo]_vars

\* C19: an operation that returned OK made no transport call that failed; an
\* ice9_fifo_mode that returned OK had its control transfers, both of its bulk
\* transfers and the write and the read of its closing ping succeed, and the
\* ping's reply match.
C19_NoFailureSwallowed ==
    (pc = "idle" /\ result = "OK") =>
        /\ \A i \in 1..Len(wire) : wire[i].ret >= 0
        /\ (call.fn = "ice9_fifo_mode") =>
                /\ \A i \in 1..Len(wire) :
                        wire[i].ep = 2 => wire[i].transferred = wire[i].length
                /\ Len(dest) = 2
                /\ dest[1] = 103

\* ---- the life of a handle: ice9_new and ice9_free ----
\* the live allocations made for handle number id
AllocationsOf(id) == {a \in allocated : a[1] = id}

\* lines 98-112: the allocations live when ice9_new returns; init_ok tells
\* whether libusb_init succeeded
ice9_new_allocates(id, init_ok) ==
    IF init_ok THEN Owned(id) ELSE {<<id, "handle">>}

\* lines 114-117: what ice9_free releases
ice9_free_releases(id) == {<<id, "context">>, <<id, "handle">>}

New ==
    /\ \E id \in 1..MaxHandles, init_ok \in BOOLEAN :
        /\ AllocationsOf(id) = {}
        /\ \A j \in 1..(id - 1) : AllocationsOf(j) # {}
        /\ allocated' = allocated \cup ice9_new_allocates(id, init_ok)
        /\ result' = IF init_ok THEN "handle" ELSE "NULL"
        /\ call' = ProtoCall("ice9_new", id, <<>>, 0)
    /\ UNCHANGED <<hnd, pc, num_bytes, dest, ret, xfer, avail, devSent, delivered,
                   fifo, wire, device, ecode, calls, int_data, conc>>

\* the caller frees a handle that ice9_new returned
Free ==
    /\ \E id \in 1..MaxHandles :
        /\ Owned(id) \subseteq allocated
        /\ allocated' = allocated \ ice9_free_releases(id)
        /\ result' = "none"
        /\ call' = ProtoCall("ice9_free", id, <<>>, 0)
    /\ UNCHANGED <<hnd, pc, num_bytes, dest, ret, xfer, avail, devSent, delivered,
                   fifo, wire, device, ecode, calls, int_data, conc>>

NextLife == New \/ Free

\* no handle was created yet
InitLife ==
    /\ wire = <<>>
    /\ device = NoDevice
    /\ ecode = "OK"
    /\ allocated = {}
    /\ calls = 0
    /\ int_data = <<0, 0>>
    /\ threads = NoThreads
    /\ log = NoLog
    /\ hnd = ice9_new
    /\ pc = "idle"
    /\ num_bytes = 0
    /\ dest = <<>>
    /\ result = "none"
    /\ call = NoCall
    /\ ret = 0
    /\ xfer = NoXfer
    /\ devSent = 0
    /\ delivered = 0
    /\ fifo = <<>>
    /\ avail = 0

SpecLife == InitLife /\ [][NextLife]_vars

\* C20: after any sequence of ice9_new and ice9_free calls, a handle has
\* either all of the allocations of ice9_new (handle record, ring buffer, bank
\* buffer, scratch transfer buffer, transport context) or none: ice9_free
\* releases all of them, and an ice9_new that fails leaves nothing allocated.
C20_HandleOwnsAndFreesAll ==
    \A id \in 1..MaxHandles :
        AllocationsOf(id) = {} \/ AllocationsOf(id) = Owned(id)

\* ---- the return contract of read_callback ----
\* C21: read_callback returns 0 exactly when the destination is still not
\* full after the bank and the chunk were copied (the bank is then empty and
\* the whole chunk was taken); 1 exactly when the destination is full and the
\* chunk has no leftover or its leftover was banked behind the bytes pending
\* in the bank; a negative value exactly when the destination is full and the
\* leftover does not fit into the bank.  The bytes of the bank go to the
\* destination before any byte of the chunk.
C21_CallbackReturnContract ==
    [][(call'.fn = "read_callback" /\ pc' # "idle") =>
        LET want == hnd.stream_bytes_to_read
            had == hnd.extra_data_bytes
            chunk == PayloadRun(devSent, devSent')
            from_bank == MIN(want, had)
            from_chunk == MIN(want - from_bank, Len(chunk))
            full == (want - from_bank - from_chunk = 0)
            leftover == Len(chunk) - from_chunk
            pending == Peek(hnd.extra_data_buffer,
                            hnd.extra_data_read_pointer + from_bank, had - from_bank)
            fits == hnd'.extra_data_read_pointer + (had - from_bank) + leftover
                        <= BANK_SIZE
        IN  /\ dest' = dest \o Peek(hnd.extra_data_buffer,
                                    hnd.extra_data_read_pointer, from_bank)
                            \o SubSeq(chunk, 1, from_chunk)
            /\ (ret' = 0) <=> ~full
            /\ (ret' = 0) => (hnd'.extra_data_bytes = 0 /\ leftover = 0)
            /\ (ret' = 1) <=> (full /\ (leftover = 0 \/ fits))
            /\ (ret' = 1) =>
                    Peek(hnd'.extra_data_buffer, hnd'.extra_data_read_pointer,
                         hnd'.extra_data_bytes)
                        = pending \o SubSeq(chunk, from_chunk + 1, Len(chunk))
            /\ (ret' < 0) <=> (full /\ leftover > 0 /\ ~fits)]_vars

\* ---- conservation of the stream's bytes across read_callback ----
\* the bytes pending in the bank: extra_data_bytes bytes from the read cursor
BankContents(h) ==
    Peek(h.extra_data_buffer, h.extra_data_read_pointer, h.extra_data_bytes)

\* C22: a read_callback that reports no overflow loses and reorders nothing:
\* the destination followed by the bytes pending in the bank is afterwards
\* what it was before followed by the chunk, so a leftover banked while older
\* bytes are pending lies behind them, inside the bank, and overwrites none of
\* them; a new request leaves the bank as it is; and stream_bytes_read_so_far
\* + stream_bytes_to_read stays the requested count.
C22_StreamBytesConserved ==
    /\ [][(call'.fn = "read_callback" /\ pc' # "idle" /\ ret' >= 0) =>
            /\ dest' \o BankContents(hnd')
                   = dest \o BankContents(hnd) \o PayloadRun(devSent, devSent')
            /\ BankEnd(hnd') <= BANK_SIZE
            /\ Len(dest') = hnd'.stream_bytes_read_so_far
            /\ hnd'.stream_bytes_read_so_far + hnd'.stream_bytes_to_read
                   = hnd.stream_bytes_read_so_far + hnd.stream_bytes_to_read]_vars
    /\ [][(call'.fn = "stream_request" /\ pc = "idle") =>
            /\ BankContents(hnd') = BankContents(hnd)
            /\ hnd'.stream_bytes_read_so_far + hnd'.stream_bytes_to_read
                   = call'.req]_vars

\* ---- two threads, each with a handle of its own ----
\* the caller's threads; thread t runs register-protocol calls on handle t
Threads == {1, 2}

\* the register-protocol calls the threads make
ThreadOps ==
    {"ice9_write_data_to_address", "ice9_read_data_from_address", "ice9_ping_bridge"}

\* a thread between calls: op is its last call, own the results of the
\* transport calls that call made on the thread's handle, in order
IdleThread == [pc |-> "idle", op |-> "none", own |-> <<>>, result |-> "none"]

\* what the n-th transport call of op may return: every call starts with an
\* ice9_write_words; ice9_write_data_to_address goes on with another, the other
\* two with an ice9_read_words
TransportResults(op, n) ==
    IF n = 1 \/ op = "ice9_write_data_to_address"
    THEN {"OK", "LibUSBIOError", "PartialWrite"}
    ELSE {"OK", "Error"}

\* the transport calls made under lib_try: the first of every call, and the
\* read of ice9_ping_bridge
UnderLibTry(op, n) == n = 1 \/ (op = "ice9_ping_bridge" /\ n = 2)

\* the variables no thread step touches
ThreadFrame ==
    UNCHANGED <<hnd, pc, num_bytes, dest, result, call, ret, xfer, avail, devSent,
                delivered, fifo, wire, device, allocated, calls, int_data, log>>

ThreadCall ==
    /\ \E t \in Threads, op \in ThreadOps :
        /\ threads[t].pc = "idle"
        /\ threads' = [threads EXCEPT ![t] =
                         [pc |-> "transport", op |-> op, own |-> <<>>,
                          result |-> "none"]]
    /\ ecode' = ecode
    /\ ThreadFrame

\* a transport call on the thread's handle returns; under lib_try its result is
\* stored in the static ecode (line 37, ecode = (x)), otherwise it is returned
ThreadTransport ==
    /\ \E t \in Threads :
        LET th == threads[t]
            n == Len(th.own) + 1
        IN  /\ th.pc = "transport"
            /\ \E k \in TransportResults(th.op, n) :
                IF UnderLibTry(th.op, n)
                THEN /\ ecode' = k
                     /\ threads' = [threads EXCEPT ![t].own = Append(@, k),
                                                   ![t].pc = "try_test"]
                ELSE /\ ecode' = ecode
                     /\ threads' = [threads EXCEPT ![t].own = Append(@, k),
                                                   ![t].pc = "idle",
                                                   ![t].result = k]
    /\ ThreadFrame

\* line 37, if (ecode != OK)
ThreadTryTest ==
    /\ \E t \in Threads :
        LET th == threads[t]
        IN  /\ th.pc = "try_test"
            /\ threads' = [threads EXCEPT ![t].pc =
                             IF ecode # "OK" THEN "try_return"
                             ELSE IF th.op = "ice9_ping_bridge" /\ Len(th.own) = 2
                             THEN "compare"
                             ELSE "transport"]
    /\ ecode' = ecode
    /\ ThreadFrame

\* line 37, return ecode
ThreadTryReturn ==
    /\ \E t \in Threads :
        /\ threads[t].pc = "try_return"
        /\ threads' = [threads EXCEPT ![t].pc = "idle", ![t].result = ecode]
    /\ ecode' = ecode
    /\ ThreadFrame

\* lines 481-486: the reply of the thread's device matches the id or not
ThreadCompare ==
    /\ \E t \in Threads, m \in {"match", "mismatch"} :
        /\ threads[t].pc = "compare"
        /\ threads' = [threads EXCEPT
                         ![t].own = Append(@, m),
                         ![t].pc = "idle",
                         ![t].result = IF m = "match" THEN "OK" ELSE "PingMismatch"]
    /\ ecode' = ecode
    /\ ThreadFrame

NextThreads ==
    \/ ThreadCall \/ ThreadTransport \/ ThreadTryTest \/ ThreadTryReturn
    \/ ThreadCompare

InitThreads ==
    /\ wire = <<>>
    /\ device = NoDevice
    /\ ecode = "OK"
    /\ allocated = Owned(1) \cup Owned(2)
    /\ calls = 0
    /\ int_data = <<0, 0>>
    /\ threads = [t \in Threads |-> IdleThread]
    /\ log = NoLog
    /\ hnd = ice9_new
    /\ pc = "idle"
    /\ num_bytes = 0
    /\ dest = <<>>
    /\ result = "none"
    /\ call = NoCall
    /\ ret = 0
    /\ xfer = NoXfer
    /\ devSent = 0
    /\ delivered = 0
    /\ fifo = <<>>
    /\ avail = 0

SpecThreads == InitThreads /\ [][NextThreads]_vars

\* the result of a call whose transport calls returned own, in order; a call
\* that has not made the transport calls its result depends on has none
ExpectedResult(op, own) ==
    IF Len(own) < 1 THEN "none"
    ELSE IF own[1] # "OK" THEN own[1]
    ELSE IF Len(own) < 2 THEN "none"
    ELSE IF op # "ice9_ping_bridge" THEN own[2]
    ELSE IF own[2] # "OK" THEN own[2]
    ELSE IF Len(own) < 3 THEN "none"
    ELSE IF own[3] = "match" THEN "OK"
    ELSE "PingMismatch"

\* C23: with two threads that each run register-protocol calls on a handle of
\* their own, under every interleaving a call goes on to its next transport
\* call only when its own earlier transport calls returned OK, and the error
\* kind it returns is the one that follows from the results of its own
\* transport calls.
C23_HandlesShareNoState ==
    \A t \in Threads :
        LET th == threads[t]
        IN  /\ \A i \in 1..(Len(th.own) - 1) : th.own[i] = "OK"
            /\ (th.pc = "idle" /\ th.op # "none") =>
                    th.result = ExpectedResult(th.op, th.own)

\* ---- the ring buffer under ice9_read and ice9_stream_read ----
ReadFns == {"ice9_read", "ice9_stream_read"}

\* the most payload one transfer of the call can carry
DestuffedSize(fn) ==
    IF fn = "ice9_read" THEN READ_XFER - HEADER ELSE PayloadIn(STREAM_XFER)

\* C24: ice9_read and ice9_stream_read issue a bulk transfer only when the
\* ring buffer is empty; a call enqueues to the ring buffer only in the step
\* that returns OK (so at most once), the enqueue lands in an empty ring
\* buffer and stores the whole leftover of that transfer (the payload
\* received less the bytes passed to the caller), which is at most the
\* destuffed size of one transfer minus one and below the usable capacity;
\* the occupancy never exceeds that bound after any sequence of calls.
C24_RingHoldsOneLeftover ==
    /\ [](pc \in ReadFns => bytes_in_read_buffer(hnd) = 0)
    /\ [](bytes_in_read_buffer(hnd) <= DestuffedSize("ice9_stream_read") - 1)
    /\ [][(pc \in ReadFns /\ hnd'.read_buffer_head # hnd.read_buffer_head) =>
            /\ pc' = "idle" /\ result' = "OK"
            /\ bytes_in_read_buffer(hnd') =
                   PayloadIn(xfer'.bytes_read) - (Len(dest') - Len(dest))
            /\ bytes_in_read_buffer(hnd') <= DestuffedSize(pc) - 1
            /\ DestuffedSize(pc) - 1 < RING_BUFFER_SIZE - 1]_vars
    /\ [][(pc \in ReadFns /\ pc' \in ReadFns) => hnd' = hnd]_vars

\* a stream read of one byte returned OK and left the rest of a full transfer
\* in the ring buffer
C24_Witness ==
    /\ pc = "idle" /\ result = "OK"
    /\ call.fn = "ice9_stream_read"
    /\ xfer.bytes_read = STREAM_XFER
    /\ bytes_in_read_buffer(hnd) = DestuffedSize("ice9_stream_read") - 1

\* ---- termination of ice9_read and ice9_stream_read ----
\* lines 385-412 and 334-376: a transfer the loop cannot ignore, either an
\* error code or a transfer with payload behind the status prefix
AnsweringTransfer ==
    \/ ReadTransferError
    \/ StreamTransferError
    \/ (IOReadTransfer /\ PayloadIn(xfer'.bytes_read) > 0)
    \/ (IOStreamTransfer /\ PayloadIn(xfer'.bytes_read) > 0)

\* the loops of lines 385 and 334 keep asking, and the device does not answer
\* with nothing but status prefixes for ever
SpecIOLive == Init /\ [][NextIO]_vars /\ WF_vars(AnsweringTransfer)

\* a step in which a pending call received a transfer of at most the prefix
PrefixOnlyTransfer ==
    /\ pc \in ReadFns
    /\ xfer'.ret = 0
    /\ xfer'.bytes_read <= HEADER
    /\ devSent' = devSent
    /\ <<xfer', pc'>> # <<xfer, pc>>

\* a step in which a pending call received a transfer with payload
PayloadTransfer ==
    /\ pc \in ReadFns
    /\ xfer'.ret = 0
    /\ devSent' > devSent

\* C25: a pending ice9_read or ice9_stream_read call eventually returns when
\* the device eventually answers with a negative code or with payload; a
\* successful transfer of the prefix or less (2 bytes or fewer) leaves the
\* destination, the remaining count and the ring buffer unchanged and the call
\* pending, and each transfer with payload strictly decreases the remaining
\* count.
C25_ReadCallsReturn ==
    /\ (pc \in ReadFns) ~> (pc = "idle")
    /\ [][PrefixOnlyTransfer =>
            /\ pc' = pc
            /\ dest' = dest /\ num_bytes' = num_bytes /\ hnd' = hnd]_vars
    /\ [][PayloadTransfer => num_bytes' < num_bytes]_vars

\* ---- the passes of the destuffing loop ----
\* lines 352-359: the values of each pass of the loop, started at offset src
\* with bytes_read bytes left and valid_read bytes destuffed: the offset the
\* pass reads from, its slice length, and the two counters after it
RECURSIVE destuff_passes(_, _, _)
destuff_passes(src, bytes_read, valid_read) ==
    IF bytes_read > 0
    THEN LET to_copy == MIN(PAYLOAD, bytes_read - HEADER)
         IN  <<[src        |-> src,
                to_copy    |-> to_copy,
                valid_read |-> valid_read + to_copy,
                bytes_read |-> bytes_read - (to_copy + HEADER)]>>
                 \o destuff_passes(src + to_copy + HEADER,
                                   bytes_read - (to_copy + HEADER),
                                   valid_read + to_copy)
    ELSE <<>>

\* C26: for every length L of a successful transfer handed to the destuffing
\* loop, each slice length is non-negative, the running count valid_read is
\* never negative, every slice lies inside the first L bytes of the transfer
\* buffer, and the loop ends with exactly 0 bytes left; lengths whose last
\* chunk is shorter than the header included.
C26_DestuffStaysInsideTransfer ==
    call.fn = "destuff" =>
        LET L == call.req
            passes == destuff_passes(0, L, 0)
        IN  /\ \A i \in 1..Len(passes) :
                   /\ passes[i].to_copy >= 0
                   /\ passes[i].valid_read >= 0
                   /\ passes[i].src + HEADER + passes[i].to_copy <= L
            /\ (Len(passes) > 0 => passes[Len(passes)].bytes_read = 0)

\* ---- streaming control and the single-word writes ----
\* ice9_enable_streaming that sends the command byte without the address
ice9_enable_streaming_no_address(address, o) == ice9_write_word(1280, o)

\* lines 489-491; o is the outcome of the bulk transfer
ice9_enable_streaming(address, o) == ice9_write_word(BitOr(1280, address), o)

\* lines 493-495
ice9_disable_streaming(o) == ice9_write_word(65535, o)

\* lines 446-448
ice9_write_word_to_address(dev, address, value, o1, o2) ==
    ice9_write_data_to_address(dev, address, <<value>>, o1, o2)

\* the variables a call of one bulk write leaves alone
WordWriteFrame ==
    /\ dest' = <<>>
    /\ UNCHANGED <<hnd, pc, num_bytes, ret, xfer, avail, devSent, delivered, fifo,
                   ecode, allocated, int_data, conc>>

EnableStreaming ==
    /\ pc = "idle"
    /\ calls < MaxCalls
    /\ calls' = calls + 1
    /\ \E address \in Addresses, o \in WriteOutcomes(2) :
        LET w == ice9_enable_streaming(address, o)
        IN  /\ result' = w.result
            /\ wire' = w.wire
            /\ device' = DeviceReceives(device, w, 0)
            /\ call' = ProtoCall("ice9_enable_streaming", address, <<>>, 0)
    /\ WordWriteFrame

DisableStreaming ==
    /\ pc = "idle"
    /\ calls < MaxCalls
    /\ calls' = calls + 1
    /\ \E o \in WriteOutcomes(2) :
        LET w == ice9_disable_streaming(o)
        IN  /\ result' = w.result
            /\ wire' = w.wire
            /\ device' = DeviceReceives(device, w, 0)
            /\ call' = ProtoCall("ice9_disable_streaming", 0, <<>>, 0)
    /\ WordWriteFrame

SendPing ==
    /\ pc = "idle"
    /\ calls < MaxCalls
    /\ calls' = calls + 1
    /\ \E pingid \in PingIds, o \in WriteOutcomes(2) :
        LET w == ice9_send_ping(pingid, o)
        IN  /\ result' = w.result
            /\ wire' = w.wire
            /\ device' = DeviceReceives(device, w, pingid)
            /\ call' = ProtoCall("ice9_send_ping", pingid, <<>>, 0)
    /\ WordWriteFrame

WriteWordToAddress ==
    /\ pc = "idle"
    /\ calls < MaxCalls
    /\ calls' = calls + 1
    /\ \E address \in Addresses, value \in {WordList[1]} :
        \E o1 \in WriteOutcomes(4) :
        \E o2 \in (IF o1.ret >= 0 /\ o1.actual_length = 4
                    THEN WriteOutcomes(2) ELSE {o1}) :
            LET r == ice9_write_word_to_address(device, address, value, o1, o2)
            IN  /\ result' = r.result
                /\ wire' = r.wire
                /\ device' = r.device
                /\ ecode' = r.ecode
                /\ call' = ProtoCall("ice9_write_word_to_address", address,
                                     <<value>>, 1)
    /\ dest' = <<>>
    /\ UNCHANGED <<hnd, pc, num_bytes, ret, xfer, avail, devSent, delivered, fifo,
                   allocated, int_data, conc>>

\* words of stream data: one whose low byte is a ping id, one that is not
StreamWords == {103, 43981}

\* a streaming device queues a word of stream data for the bulk-in endpoint
DeviceStreams ==
    /\ device.stream
    /\ Len(device.out) < MaxStreamed
    /\ \E w \in StreamWords :
        device' = [device EXCEPT !.out = @ \o BytesOf(<<w>>)]
    /\ UNCHANGED <<hnd, pc, num_bytes, dest, result, call, ret, xfer, avail, devSent,
                   delivered, fifo, wire, ecode, allocated, calls, int_data, conc>>

NextCtl ==
    \/ EnableStreaming \/ DisableStreaming \/ SendPing \/ DeviceStreams
    \/ WriteWordToAddress \/ WriteDataToAddress \/ WriteIntToAddress
    \/ ReadDataFromAddress \/ PingBridge
    \/ RegisterReadTransfer \/ RegisterReadTransferError

SpecCtl == InitRegs /\ [][NextCtl]_vars

\* the register-protocol operations that only write
WriteOps ==
    {"ice9_enable_streaming", "ice9_disable_streaming", "ice9_send_ping",
     "ice9_write_word_to_address", "ice9_write_data_to_address",
     "ice9_write_int_to_address"}

\* the word that a single-word operation is to put on the wire
ControlWord(c) ==
    IF c.fn = "ice9_enable_streaming" THEN 1280 + c.address
    ELSE IF c.fn = "ice9_disable_streaming" THEN 65535
    ELSE 256 + c.address

\* a step that is a whole call of a write operation
WriteOpStep == calls' = calls + 1 /\ call'.fn \in WriteOps

\* C27: ice9_enable_streaming(address) makes exactly one transport write, of
\* the two bytes of the word 0x0500 | address, ice9_disable_streaming exactly
\* one of the word 0xFFFF and ice9_send_ping(id) exactly one of 0x0100 | id,
\* whatever the transfer returns; and no register-protocol write operation
\* makes a bulk-in transfer, takes bytes from the device, or changes the
\* handle (ring buffer head, tail and contents, bank).
C27_ControlWordsAndWriteFrame ==
    /\ [][(WriteOpStep /\ call'.fn \in {"ice9_enable_streaming",
                                        "ice9_disable_streaming", "ice9_send_ping"}) =>
            /\ Len(wire') = 1
            /\ wire'[1].ep = 2
            /\ wire'[1].length = 2
            /\ wire'[1].data = <<ControlWord(call') % 256, ControlWord(call') \div 256>>]_vars
    /\ [][WriteOpStep =>
            /\ \A i \in 1..Len(wire') : wire'[i].ep = 2
            /\ Len(wire') >= 1
            /\ hnd' = hnd
            /\ pc' = "idle"
            /\ SubSeq(device'.out, 1, Len(device.out)) = device.out]_vars

\* streaming was enabled for address 0x12 by the one word 0x0512 while the
\* ring buffer held bytes
C27_Witness ==
    /\ call.fn = "ice9_enable_streaming"
    /\ result = "OK"
    /\ wire = <<[ep |-> 2, data |-> <<18, 5>>, length |-> 2, ret |-> 0,
                 transferred |-> 2]>>
    /\ bytes_in_read_buffer(hnd) > 0
    /\ device.stream

\* ---- operations issued while the device streams ----
\* the result that the transport's answers to a finished call stand for: the
\* kind of the first bulk write that failed, else Error when a bulk read
\* failed, else the comparison of the ping reply's low byte, else OK
ResultFromTransport ==
    LET writes == SelectSeq(wire, LAMBDA e : e.ep = 2)
        failed == SelectSeq(writes, LAMBDA e : WriteKind(e) # "OK")
        reads  == SelectSeq(wire, LAMBDA e : e.ep = 129)
    IN  IF failed # <<>> THEN WriteKind(failed[1])
        ELSE IF \E i \in 1..Len(reads) : reads[i].ret < 0 THEN "Error"
        ELSE IF call.fn = "ice9_ping_bridge"
        THEN (IF Len(dest) >= 1 /\ dest[1] = call.address THEN "OK"
              ELSE "PingMismatch")
        ELSE "OK"

\* C28: the protocol layer does not enforce the handle's lifecycle: enabling
\* and disabling streaming record nothing in the handle, an operation issued
\* while the device streams still makes its first transport write, and the
\* result of every finished register read, register write or ping is the one
\* the transport's responses give (the kind of a failed write, Error for a
\* failed read, PingMismatch when the bytes read back are not the ping id, else
\* OK), streaming or not.
C28_LifecycleNotEnforced ==
    /\ []((pc = "idle" /\ call.fn # "none" /\ result # "none") =>
            result = ResultFromTransport)
    /\ [][(calls' = calls + 1) =>
            /\ Len(wire') >= 1
            /\ wire'[1].ep = 2
            /\ (call'.fn \in {"ice9_enable_streaming", "ice9_disable_streaming"}
                    => hnd' = hnd)]_vars

\* a ping sent to a streaming device, the ring buffer being empty, read a word
\* of stream data back as its reply and returned PingMismatch
C28_Witness ==
    /\ pc = "idle"
    /\ call.fn = "ice9_ping_bridge"
    /\ call.in_buffer = 0
    /\ device.stream
    /\ Len(wire) = 2 /\ wire[2].ep = 129 /\ wire[2].ret = 0
    /\ dest = <<205, 171>>
    /\ result = "PingMismatch"

\* ---- logger.c: the logging sinks under two threads ----
\* In this part threads[t] is the position of thread t in the logger: pc is the
\* line it is about to run, op the macro or function it called, fn the sink
\* the macro loaded from the dispatch table, buf the state of its buf[256].
\* log.lock is the holder of s_log_lock (0: free), log.info and log.error are
\* ice9_info_logger and ice9_error_logger, log.stdout and log.stderr the
\* threads that are inside a write to the stream.

\* logger.h lines 15-23: LOG_INFO or LOG_ERROR loads the sink from the table,
\* without the lock, and calls it.  A sink the application installed runs and
\* returns.  ice9_log_info formats into buf (lines 12-15); ice9_log_error
\* formats its prefix (line 24), which fits as __FILE__ and __LINE__ are short
\* (line 25).
LogCall ==
    /\ \E t \in Threads, op \in {"LOG_INFO", "LOG_ERROR"} :
        LET fn == IF op = "LOG_INFO" THEN log.info ELSE log.error
        IN  /\ threads[t].pc = "idle"
            /\ threads' = [threads EXCEPT ![t] =
                 [pc  |-> IF fn = "ice9_log_info" THEN "line17"
                          ELSE IF fn = "ice9_log_error" THEN "line28"
                          ELSE "idle",
                  op  |-> op,
                  fn  |-> fn,
                  buf |-> IF fn = "ice9_log_info" THEN "text" ELSE "none"]]
    /\ log' = log
    /\ UNCHANGED <<hnd, pc, num_bytes, dest, result, call, ret, xfer, avail, devSent,
                   delivered, fifo, wire, device, ecode, allocated, calls, int_data>>

\* line 28: ice9_log_error enters vfprintf(stderr, format, args)
ErrorVfprintf ==
    /\ \E t \in Threads :
        /\ threads[t].pc = "line28"
        /\ threads' = [threads EXCEPT ![t].pc = "in_vfprintf"]
        /\ log' = [log EXCEPT !.stderr = @ \cup {t}]
    /\ UNCHANGED <<hnd, pc, num_bytes, dest, result, call, ret, xfer, avail, devSent,
                   delivered, fifo, wire, device, ecode, allocated, calls, int_data>>

\* lines 28-30: vfprintf returns, and vsnprintf runs on the va_list that
\* vfprintf has used up, which is undefined: buf gets the message, or bytes
\* formatted from whatever follows the arguments, or the program stops on a
\* wild %s pointer
ErrorFormat ==
    /\ \E t \in Threads :
        /\ threads[t].pc = "in_vfprintf"
        /\ \E out \in {"text", "indeterminate", "stopped"} :
            threads' = [threads EXCEPT
                          ![t].pc = IF out = "stopped" THEN "stopped" ELSE "line34",
                          ![t].buf = IF out = "stopped" THEN "none" ELSE out]
        /\ log' = [log EXCEPT !.stderr = @ \ {t}]
    /\ UNCHANGED <<hnd, pc, num_bytes, dest, result, call, ret, xfer, avail, devSent,
                   delivered, fifo, wire, device, ecode, allocated, calls, int_data>>

\* lines 17 and 34: pthread_mutex_lock(&s_log_lock)
LogLock ==
    /\ \E t \in Threads :
        /\ threads[t].pc \in {"line17", "line34"}
        /\ log.lock = 0
        /\ threads' = [threads EXCEPT ![t].pc = "locked"]
        /\ log' = [log EXCEPT !.lock = t]
    /\ UNCHANGED <<hnd, pc, num_bytes, dest, result, call, ret, xfer, avail, devSent,
                   delivered, fifo, wire, device, ecode, allocated, calls, int_data>>

\* lines 18 and 35: the sink enters printf or fprintf(stderr, "%s", buf)
LogWrite ==
    /\ \E t \in Threads :
        /\ threads[t].pc = "locked"
        /\ threads' = [threads EXCEPT ![t].pc = "in_printf"]
        /\ log' = IF threads[t].op = "LOG_INFO"
                  THEN [log EXCEPT !.stdout = @ \cup {t}]
                  ELSE [log EXCEPT !.stderr = @ \cup {t}]
    /\ UNCHANGED <<hnd, pc, num_bytes, dest, result, call, ret, xfer, avail, devSent,
                   delivered, fifo, wire, device, ecode, allocated, calls, int_data>>

\* lines 18 and 35: printf or fprintf returns
LogWritten ==
    /\ \E t \in Threads :
        /\ threads[t].pc = "in_printf"
        /\ threads' = [threads EXCEPT ![t].pc = "unlock"]
        /\ log' = IF threads[t].op = "LOG_INFO"
                  THEN [log EXCEPT !.stdout = @ \ {t}]
                  ELSE [log EXCEPT !.stderr = @ \ {t}]
    /\ UNCHANGED <<hnd, pc, num_bytes, dest, result, call, ret, xfer, avail, devSent,
                   delivered, fifo, wire, device, ecode, allocated, calls, int_data>>

\* lines 19, 36, 45 and 51: pthread_mutex_unlock(&s_log_lock) and return
LogUnlock ==
    /\ \E t \in Threads :
        /\ threads[t].pc = "unlock"
        /\ log.lock = t
        /\ threads' = [threads EXCEPT ![t].pc = "idle"]
        /\ log' = [log EXCEPT !.lock = 0]
    /\ UNCHANGED <<hnd, pc, num_bytes, dest, result, call, ret, xfer, avail, devSent,
                   delivered, fifo, wire, device, ecode, allocated, calls, int_data>>

\* lines 43 and 49: ice9_set_info_logger or ice9_set_error_logger takes the lock
SetLoggerLock ==
    /\ \E t \in Threads, op \in {"ice9_set_info_logger", "ice9_set_error_logger"} :
        /\ threads[t].pc = "idle"
        /\ log.lock = 0
        /\ threads' = [threads EXCEPT ![t] =
                         [pc |-> "set_locked", op |-> op, fn |-> "none", buf |-> "none"]]
        /\ log' = [log EXCEPT !.lock = t]
    /\ UNCHANGED <<hnd, pc, num_bytes, dest, result, call, ret, xfer, avail, devSent,
                   delivered, fifo, wire, device, ecode, allocated, calls, int_data>>

\* lines 44 and 50: the table entry is assigned the application's sink
SetLoggerAssign ==
    /\ \E t \in Threads :
        /\ threads[t].pc = "set_locked"
        /\ threads' = [threads EXCEPT ![t].pc = "unlock"]
        /\ log' = IF threads[t].op = "ice9_set_info_logger"
                  THEN [log EXCEPT !.info = "application"]
                  ELSE [log EXCEPT !.error = "application"]
    /\ UNCHANGED <<hnd, pc, num_bytes, dest, result, call, ret, xfer, avail, devSent,
                   delivered, fifo, wire, device, ecode, allocated, calls, int_data>>

NextLog ==
    \/ LogCall \/ ErrorVfprintf \/ ErrorFormat \/ LogLock \/ LogWrite \/ LogWritten
    \/ LogUnlock \/ SetLoggerLock \/ SetLoggerAssign

\* lines 7, 39 and 40: the statics of logger.c; no thread is in the logger
InitLog ==
    /\ wire = <<>>
    /\ device = NoDevice
    /\ ecode = "OK"
    /\ allocated = Owned(1)
    /\ calls = 0
    /\ int_data = <<0, 0>>
    /\ threads = [t \in Threads |->
                    [pc |-> "idle", op |-> "none", fn |-> "none", buf |-> "none"]]
    /\ log = NoLog
    /\ hnd = ice9_new
    /\ pc = "idle"
    /\ num_bytes = 0
    /\ dest = <<>>
    /\ result = "none"
    /\ call = NoCall
    /\ ret = 0
    /\ xfer = NoXfer
    /\ devSent = 0
    /\ delivered = 0
    /\ fifo = <<>>
    /\ avail = 0

SpecLog == InitLog /\ [][NextLog]_vars

\* thread u is between the lock and the unlock of a sink reassignment
InSetLogger(u) ==
    /\ threads[u].op \in {"ice9_set_info_logger", "ice9_set_error_logger"}
    /\ threads[u].pc \in {"set_locked", "unlock"}

\* the step is thread t loading a sink from the dispatch table
UsesTable(t) ==
    /\ threads[t].pc = "idle"
    /\ threads'[t] # threads[t]
    /\ threads'[t].op \in {"LOG_INFO", "LOG_ERROR"}

\* C29: under every interleaving of threads that log, a thread is inside a
\* write of a default sink to the standard output or standard error stream
\* only while it holds s_log_lock, so no two threads are inside a write to the
\* same stream at once; and no thread loads a sink from the dispatch table
\* (LOG_INFO, LOG_ERROR) while another thread is inside ice9_set_info_logger
\* or ice9_set_error_logger.
C29_LogLockSerializes ==
    /\ [](\A t \in Threads : t \in (log.stdout \cup log.stderr) => log.lock = t)
    /\ [](Cardinality(log.stdout) <= 1 /\ Cardinality(log.stderr) <= 1)
    /\ [][\A t \in Threads : UsesTable(t) =>
            \A u \in Threads \ {t} : ~InSetLogger(u)]_vars

====
